---- MODULE Spec2Model ----
(***************************************************************************)
(* Memory_Agent: the tiered conversational memory of a chat agent.         *)
(*                                                                         *)
(*   structured_facts table  (memory/structured_facts.py, init_db.py)      *)
(*   SessionMemory window    (session.py)                                  *)
(*   chat request path       (app.py, memory/summarizer.py)                *)
(*   format_for_injection    (memory/retrieval_harness.py)                 *)
(*   extract_and_store       (memory/extractor.py)                         *)
(*                                                                         *)
(* Floats in [0,1] (confidence, importance) are modelled in hundredths:    *)
(* 0.4 is 40, 0.95 is 95.  Each subsystem has a specification of its own   *)
(* (SpecFacts, SpecConc, SpecSession, SpecChat, SpecFormat, SpecExtract);  *)
(* the variables of the other subsystems stay at their initial value.      *)
(***************************************************************************)
EXTENDS Integers, Sequences, FiniteSets, TLC

VARIABLES
    facts,      \* structured_facts: the committed rows, in insertion order (id = index)
    now,        \* logical NOW(): number of statements executed so far
    lastOp,     \* history: the last store call, its arguments, outcome and the table before it
    everActive, \* history: every <<user_id, category, key, value>> that was an active value
    scen,       \* history: how far the calls so far follow the Alex/Alexander/Al scenario
    wpc,        \* per background worker: position inside upsert_fact
    wjob,       \* per background worker: the arguments of its current upsert_fact call
    wpend,      \* per background worker: the uncommitted effect of its statement
    wdone,      \* number of upsert_fact calls the workers have completed
    wcommits,   \* history: per triple, the upserts committed by the workers
    wrace,      \* history: an insert was committed while the other worker's call
                \* for the same triple had started and not yet executed
    sm,         \* one SessionMemory object: [history, max_history]
    added,      \* history: every turn passed to sm.add since construction or clear
    ex,         \* one extract_and_store call: position, inputs, loop state, upsert calls made
    fmt,        \* one format_for_injection call: arguments, position, returned text
    capacity,   \* config: the max_history a SessionMemory() is constructed with
    sessions,   \* app.sessions: user_id -> SessionMemory
    turn_counters, \* app.turn_counters: user_id -> number of requests
    executor,   \* _executor: the submitted tasks that have not run yet, oldest first
    episodes,   \* episodic_memory: the committed rows, in insertion order
    positions,  \* history: per user, the conversation positions of the turns in the window
    truncated,  \* history: per user, the positions chat cut from the window (app.py line 85)
    dispatched, \* history: per user, the number of compressions chat submitted
    nk,         \* one _normalize_key experiment: the key, a respelling, the results
    rt,         \* one retrieve_all call: its arguments, what it fetched, its result
    dm,         \* one decide_mode call: the message and the mode returned
    rq,         \* the last /chat request: its inputs, the failures met, its response
    so,         \* one call of a store operation or of the compression: inputs, outcomes, result
    th          \* the request threads running at once: position and locals of each

factVars == <<facts, now, lastOp, everActive, scen>>
concVars == <<wpc, wjob, wpend, wdone, wcommits, wrace>>
sessVars == <<sm, added>>
extVars == <<ex>>
fmtVars == <<fmt>>
chatVars == <<capacity, sessions, turn_counters, executor, episodes, positions,
              truncated, dispatched>>
pureVars == <<nk, rt, dm, rq, so, th>>

----------------------------------------------------------------------------
(* Bounds of the model                                                     *)

MaxClock == 3       \* store calls per behaviour of SpecFacts
MaxJobs == 2        \* upsert_fact calls the two workers run in SpecConc
MaxCap == 6         \* largest SessionMemory capacity tried in SpecSession
MaxAdds == 14       \* SessionMemory.add calls per behaviour of SpecSession
MaxBatch == 2       \* candidates in one extraction response (SpecExtract)

(* Small input domains *)
Users == {"u1", "u2"}
Categories == {"identity"}
Keys == {"name"}
Values == {"Alex", "Alexander", "Al"}
Confs == {50, 90, 95}
Imps == {80}

NoOp == [op |-> "none"]

----------------------------------------------------------------------------
(* structured_facts: schema and statements                                 *)

\* One row of structured_facts as INSERT ... VALUES (.., TRUE) creates it.
NewRow(u, c, k, v, conf, imp, t) ==
    [user_id |-> u, category |-> c, key |-> k, value |-> v,
     confidence |-> conf, importance |-> imp,
     updated_at |-> t, is_active |-> TRUE]

\* A variant of the index that never reports a conflict (index missing).
IdxFactsUniqueMissing(row, u, c, k) == FALSE

\* A variant of the index over (user_id, category, key) without the WHERE clause:
\* soft-deleted rows stay in it.
IdxFactsUniqueAllRows(row, u, c, k) ==
    /\ row.user_id = u
    /\ row.category = c
    /\ row.key = k

\* idx_facts_unique: UNIQUE (user_id, category, key, is_active) WHERE is_active = TRUE.
\* TRUE when `row` is in the partial index under the key of an insert for (u, c, k).
IdxFactsUnique(row, u, c, k) ==
    /\ row.is_active
    /\ row.user_id = u
    /\ row.category = c
    /\ row.key = k

\* The rows an INSERT of an active row for (u, c, k) conflicts with.
ConflictRows(tbl, u, c, k) ==
    {i \in DOMAIN tbl : IdxFactsUnique(tbl[i], u, c, k)}

\* The guard with the comparison reversed.
ConfidenceGuardReversed(old, conf) == old.confidence >= conf

\* DO UPDATE ... WHERE structured_facts.confidence <= EXCLUDED.confidence
ConfidenceGuard(old, conf) == old.confidence <= conf

\* DO UPDATE SET value, confidence, importance = EXCLUDED.*, updated_at = NOW()
DoUpdate(old, v, conf, imp, t) ==
    [old EXCEPT !.value = v, !.confidence = conf, !.importance = imp,
                !.updated_at = t]

\* INSERT ... ON CONFLICT (user_id, category, key, is_active) DO UPDATE ... WHERE ...
\* applied to table tbl at time t: the table after the statement.
UpsertStmt(tbl, u, c, k, v, conf, imp, t) ==
    LET cr == ConflictRows(tbl, u, c, k) IN
    IF cr = {}
    THEN Append(tbl, NewRow(u, c, k, v, conf, imp, t))
    ELSE [i \in DOMAIN tbl |->
            IF i \in cr /\ ConfidenceGuard(tbl[i], conf)
            THEN DoUpdate(tbl[i], v, conf, imp, t)
            ELSE tbl[i]]

\* A WHERE clause without `AND is_active = TRUE`.
DeleteMatchesAnyRow(tbl, u, c, k) ==
    {i \in DOMAIN tbl : /\ tbl[i].user_id = u
                        /\ tbl[i].category = c
                        /\ tbl[i].key = k}

\* The rows delete_fact's UPDATE matches.
DeleteMatches(tbl, u, c, k) ==
    {i \in DOMAIN tbl : /\ tbl[i].user_id = u
                        /\ tbl[i].category = c
                        /\ tbl[i].key = k
                        /\ tbl[i].is_active}

\* UPDATE structured_facts SET is_active = FALSE, updated_at = NOW() WHERE ...
DeleteStmt(tbl, u, c, k, t) ==
    [i \in DOMAIN tbl |->
        IF i \in DeleteMatches(tbl, u, c, k)
        THEN [tbl[i] EXCEPT !.is_active = FALSE, !.updated_at = t]
        ELSE tbl[i]]

\* The active rows of a triple (the "current view").
ActiveRows(tbl, u, c, k) ==
    {i \in DOMAIN tbl : /\ tbl[i].is_active
                        /\ tbl[i].user_id = u
                        /\ tbl[i].category = c
                        /\ tbl[i].key = k}

\* All rows of a triple, active or not.
TripleRows(tbl, u, c, k) ==
    {i \in DOMAIN tbl : /\ tbl[i].user_id = u
                        /\ tbl[i].category = c
                        /\ tbl[i].key = k}

ActiveValues(tbl) ==
    {<<tbl[i].user_id, tbl[i].category, tbl[i].key, tbl[i].value>> :
        i \in {j \in DOMAIN tbl : tbl[j].is_active}}

\* The scenario of the specification's test: the n-th call of the behaviour.
ScenarioCall(n) ==
    CASE n = 1 -> <<"u1", "identity", "name", "Alex", 90>>
      [] n = 2 -> <<"u1", "identity", "name", "Alexander", 95>>
      [] n = 3 -> <<"u1", "identity", "name", "Al", 50>>
      [] OTHER -> <<>>

ScenNext(u, c, k, v, conf, executed) ==
    IF scen >= 0 /\ scen < 3 /\ executed /\ ScenarioCall(scen + 1) = <<u, c, k, v, conf>>
    THEN scen + 1
    ELSE -1

----------------------------------------------------------------------------
(* The store's operations, one call at a time (SpecFacts)                  *)

\* upsert_fact: the statement runs and is committed; returns True.
UpsertFact(u, c, k, v, conf, imp) ==
    /\ now < MaxClock
    /\ facts' = UpsertStmt(facts, u, c, k, v, conf, imp, now + 1)
    /\ now' = now + 1
    /\ lastOp' = [op |-> "upsert", user_id |-> u, category |-> c, key |-> k,
                  value |-> v, confidence |-> conf, importance |-> imp,
                  ret |-> "True", pre |-> facts]
    /\ everActive' = everActive \cup ActiveValues(facts')
    /\ scen' = ScenNext(u, c, k, v, conf, TRUE)
    /\ UNCHANGED <<concVars, sessVars, extVars, fmtVars, chatVars, pureVars>>

\* upsert_fact: execute or commit raises; rollback, returns False.
UpsertFactError(u, c, k, v, conf, imp) ==
    /\ now < MaxClock
    /\ now' = now + 1
    /\ lastOp' = [op |-> "upsert", user_id |-> u, category |-> c, key |-> k,
                  value |-> v, confidence |-> conf, importance |-> imp,
                  ret |-> "False", pre |-> facts]
    /\ scen' = -1
    /\ UNCHANGED <<facts, everActive>>
    /\ UNCHANGED <<concVars, sessVars, extVars, fmtVars, chatVars, pureVars>>

\* delete_fact: the UPDATE runs and is committed; returns rowcount > 0.
DeleteFact(u, c, k) ==
    /\ now < MaxClock
    /\ facts' = DeleteStmt(facts, u, c, k, now + 1)
    /\ now' = now + 1
    /\ lastOp' = [op |-> "delete", user_id |-> u, category |-> c, key |-> k,
                  ret |-> IF DeleteMatches(facts, u, c, k) # {} THEN "True" ELSE "False",
                  pre |-> facts, committed |-> TRUE]
    /\ scen' = -1
    /\ UNCHANGED everActive
    /\ UNCHANGED <<concVars, sessVars, extVars, fmtVars, chatVars, pureVars>>

\* delete_fact: execute or commit raises; rollback, returns False.
DeleteFactError(u, c, k) ==
    /\ now < MaxClock
    /\ now' = now + 1
    /\ lastOp' = [op |-> "delete", user_id |-> u, category |-> c, key |-> k,
                  ret |-> "False", pre |-> facts, committed |-> FALSE]
    /\ scen' = -1
    /\ UNCHANGED <<facts, everActive>>
    /\ UNCHANGED <<concVars, sessVars, extVars, fmtVars, chatVars, pureVars>>

InitFactVars ==
    /\ facts = <<>>
    /\ now = 0
    /\ lastOp = NoOp
    /\ everActive = {}
    /\ scen = 0

InitConcIdle ==
    /\ wpc = [w \in {1, 2} |-> "idle"]
    /\ wjob = [w \in {1, 2} |-> NoOp]
    /\ wpend = [w \in {1, 2} |-> NoOp]
    /\ wdone = 0
    /\ wcommits = [tr \in Users \X Categories \X Keys |-> 0]
    /\ wrace = FALSE

InitSessIdle ==
    /\ sm = [history |-> <<>>, max_history |-> 0]
    /\ added = <<>>

ExIdle ==
    [pc |-> "idle", user_id |-> "", message |-> "", llm |-> [kind |-> "none"],
     llm_called |-> FALSE, cands |-> <<>>, pos |-> 1, seen |-> {}, calls |-> <<>>,
     out |-> "none"]

InitExtIdle == ex = ExIdle

FmtIdle == [pc |-> "idle", results |-> <<>>, max_tokens |-> 0, out |-> ""]

InitFmtIdle == fmt = FmtIdle

InitChatIdle ==
    /\ capacity = 0
    /\ sessions = <<>>
    /\ turn_counters = <<>>
    /\ executor = <<>>
    /\ episodes = <<>>
    /\ positions = <<>>
    /\ truncated = <<>>
    /\ dispatched = <<>>

NkIdle == [pc |-> "idle", base |-> "", raw |-> "", out_base |-> "", out |-> "", again |-> ""]

RtIdle == [pc |-> "idle"]

DmIdle == [pc |-> "idle", base |-> "", spelling |-> "", message |-> "", mode |-> ""]

RqIdle == [pc |-> "idle"]

SoIdle == [pc |-> "idle"]

ThIdle == [pc |-> <<>>]

InitPureIdle == nk = NkIdle /\ rt = RtIdle /\ dm = DmIdle /\ rq = RqIdle /\ so = SoIdle /\ th = ThIdle

InitRest == InitFmtIdle /\ InitChatIdle /\ InitPureIdle

InitFacts == InitFactVars /\ InitConcIdle /\ InitSessIdle /\ InitExtIdle /\ InitRest

NextFacts ==
    \/ \E u \in Users, c \in Categories, k \in Keys, v \in Values,
          conf \in Confs, imp \in Imps : UpsertFact(u, c, k, v, conf, imp)
    \/ \E u \in Users, c \in Categories, k \in Keys, v \in Values,
          conf \in Confs, imp \in Imps : UpsertFactError(u, c, k, v, conf, imp)
    \/ \E u \in Users, c \in Categories, k \in Keys : DeleteFact(u, c, k)
    \/ \E u \in Users, c \in Categories, k \in Keys : DeleteFactError(u, c, k)

vars == <<factVars, concVars, sessVars, extVars, fmtVars, chatVars, pureVars>>

SpecFacts == InitFacts /\ [][NextFacts]_vars

----------------------------------------------------------------------------
(* upsert_fact on the two workers of the background pool (SpecConc).       *)
(* Each call is a transaction: get_conn, execute, commit.  A statement     *)
(* reads the committed rows; an uncommitted insert or row lock of another  *)
(* transaction on the same index key makes it wait for that transaction.   *)

Workers == {1, 2}

JobTriple(w) == <<wjob[w].user_id, wjob[w].category, wjob[w].key>>

\* A store that never makes a statement wait for another transaction.
BlockedNever(w) == FALSE

\* The statement of worker w has to wait: another transaction holds an
\* uncommitted insert under the same key of idx_facts_unique, or the lock of
\* the row the statement conflicts with.
Blocked(w) ==
    \E w2 \in Workers \ {w} :
        /\ wpc[w2] = "executed"
        /\ \/ /\ wpend[w2].kind = "insert"
              /\ IdxFactsUnique(wpend[w2].row, wjob[w].user_id, wjob[w].category,
                                wjob[w].key)
           \/ /\ wpend[w2].kind \in {"update", "locked"}
              /\ wpend[w2].idx \in ConflictRows(facts, wjob[w].user_id,
                                                wjob[w].category, wjob[w].key)

\* The effect of worker w's INSERT ... ON CONFLICT DO UPDATE on the committed
\* table, held until commit.
StmtEffect(tbl, j, t) ==
    LET cr == ConflictRows(tbl, j.user_id, j.category, j.key) IN
    IF cr = {}
    THEN [kind |-> "insert",
          row |-> NewRow(j.user_id, j.category, j.key, j.value, j.confidence,
                         j.importance, t)]
    ELSE LET i == CHOOSE x \in cr : TRUE IN
         IF ConfidenceGuard(tbl[i], j.confidence)
         THEN [kind |-> "update", idx |-> i,
               row |-> DoUpdate(tbl[i], j.value, j.confidence, j.importance, t)]
         ELSE [kind |-> "locked", idx |-> i]

\* conn.commit(): the committed table with the held effect applied.
ApplyEffect(tbl, e) ==
    CASE e.kind = "insert" -> Append(tbl, e.row)
      [] e.kind = "update" -> [tbl EXCEPT ![e.idx] = e.row]
      [] OTHER -> tbl

\* A worker takes an upsert_fact call: conn = get_conn(), cur = conn.cursor().
WStart(w, u, c, k, v, conf, imp) ==
    /\ wpc[w] = "idle"
    /\ wdone + Cardinality({x \in Workers : wpc[x] # "idle"}) < MaxJobs
    /\ wpc' = [wpc EXCEPT ![w] = "conn"]
    /\ wjob' = [wjob EXCEPT ![w] =
                  [op |-> "upsert", user_id |-> u, category |-> c, key |-> k,
                   value |-> v, confidence |-> conf, importance |-> imp]]
    /\ UNCHANGED <<wpend, wdone, wcommits, wrace>>
    /\ UNCHANGED <<factVars, sessVars, extVars, fmtVars, chatVars, pureVars>>

\* cur.execute(INSERT ... ON CONFLICT ...): runs once it need not wait.
WExecute(w) ==
    /\ wpc[w] = "conn"
    /\ ~Blocked(w)
    /\ wpend' = [wpend EXCEPT ![w] = StmtEffect(facts, wjob[w], now + 1)]
    /\ now' = now + 1
    /\ wpc' = [wpc EXCEPT ![w] = "executed"]
    /\ UNCHANGED <<wjob, wdone, wcommits, wrace>>
    /\ UNCHANGED <<facts, lastOp, everActive, scen>>
    /\ UNCHANGED <<sessVars, extVars, fmtVars, chatVars, pureVars>>

\* conn.commit(); cur.close(); return True.
WCommit(w) ==
    /\ wpc[w] = "executed"
    /\ facts' = ApplyEffect(facts, wpend[w])
    /\ wcommits' = [wcommits EXCEPT ![JobTriple(w)] = @ + 1]
    /\ wrace' = (wrace \/ (/\ wpend[w].kind = "insert"
                           /\ \E w2 \in Workers \ {w} :
                                 /\ wpc[w2] = "conn"
                                 /\ JobTriple(w2) = JobTriple(w)))
    /\ wpc' = [wpc EXCEPT ![w] = "idle"]
    /\ wjob' = [wjob EXCEPT ![w] = NoOp]
    /\ wpend' = [wpend EXCEPT ![w] = NoOp]
    /\ wdone' = wdone + 1
    /\ UNCHANGED <<now, lastOp, everActive, scen>>
    /\ UNCHANGED <<sessVars, extVars, fmtVars, chatVars, pureVars>>

\* execute or commit raises: conn.rollback(); return False.
WRollback(w) ==
    /\ wpc[w] \in {"conn", "executed"}
    /\ wpc' = [wpc EXCEPT ![w] = "idle"]
    /\ wjob' = [wjob EXCEPT ![w] = NoOp]
    /\ wpend' = [wpend EXCEPT ![w] = NoOp]
    /\ wdone' = wdone + 1
    /\ UNCHANGED <<wcommits, wrace>>
    /\ UNCHANGED <<factVars, sessVars, extVars, fmtVars, chatVars, pureVars>>

NextConc ==
    \/ \E w \in Workers, u \in Users, c \in Categories, k \in Keys, v \in Values,
          conf \in Confs, imp \in Imps : WStart(w, u, c, k, v, conf, imp)
    \/ \E w \in Workers : WExecute(w)
    \/ \E w \in Workers : WCommit(w)
    \/ \E w \in Workers : WRollback(w)

SpecConc == InitFacts /\ [][NextConc]_vars

----------------------------------------------------------------------------
(* SessionMemory (SpecSession)                                             *)

Min(a, b) == IF a < b THEN a ELSE b
Max(a, b) == IF a > b THEN a ELSE b

\* Python's s[i:] for a list s and an integer i of either sign.
PySliceFrom(s, i) ==
    LET start == IF i < 0 THEN Max(Len(s) + i, 0) ELSE Min(i, Len(s))
    IN  SubSeq(s, start + 1, Len(s))

\* Python's s[:j] for a list s and an integer j of either sign.
PySliceTo(s, j) ==
    LET stop == IF j < 0 THEN Max(Len(s) + j, 0) ELSE Min(j, Len(s))
    IN  SubSeq(s, 1, stop)

Roles == {"user", "assistant"}

\* SessionMemory.__init__
SessionNew(max_history) == [history |-> <<>>, max_history |-> max_history]

\* An add that keeps the oldest turns instead of the newest.
SessionAddKeepOldest(s, role, content) ==
    LET h == Append(s.history, [role |-> role, content |-> content])
    IN  [s EXCEPT !.history =
            IF Len(h) > s.max_history THEN PySliceTo(h, s.max_history) ELSE h]

\* SessionMemory.add: append, then keep history[-max_history:] when too long.
SessionAdd(s, role, content) ==
    LET h == Append(s.history, [role |-> role, content |-> content])
    IN  [s EXCEPT !.history =
            IF Len(h) > s.max_history THEN PySliceFrom(h, 0 - s.max_history) ELSE h]

\* SessionMemory.get
SessionGet(s) == s.history

\* add(role, content) on the window; the content is the number of the call.
Add(role) ==
    /\ Len(added) < MaxAdds
    /\ sm' = SessionAdd(sm, role, Len(added) + 1)
    /\ added' = Append(added, [role |-> role, content |-> Len(added) + 1])
    /\ UNCHANGED <<factVars, concVars, extVars, fmtVars, chatVars, pureVars>>

\* clear()
Clear ==
    /\ Len(added) > 0
    /\ sm' = [sm EXCEPT !.history = <<>>]
    /\ added' = <<>>
    /\ UNCHANGED <<factVars, concVars, extVars, fmtVars, chatVars, pureVars>>

InitSession ==
    /\ InitFactVars /\ InitConcIdle /\ InitExtIdle /\ InitRest
    /\ \E n \in 0..MaxCap : sm = SessionNew(n)
    /\ added = <<>>

NextSession ==
    \/ \E role \in Roles : Add(role)
    \/ Clear

SpecSession == InitSession /\ [][NextSession]_vars

----------------------------------------------------------------------------
(* Python strings                                                          *)

IsSpace(ch) == ch \in {" ", "\n", "\t"}

RECURSIVE LStrip(_)
LStrip(s) ==
    IF Len(s) = 0 THEN s
    ELSE IF IsSpace(SubSeq(s, 1, 1)) THEN LStrip(SubSeq(s, 2, Len(s))) ELSE s

RECURSIVE RStrip(_)
RStrip(s) ==
    IF Len(s) = 0 THEN s
    ELSE IF IsSpace(SubSeq(s, Len(s), Len(s))) THEN RStrip(SubSeq(s, 1, Len(s) - 1))
    ELSE s

\* A strip that leaves the string as it is.
PyStripNone(s) == s

\* str.strip()
PyStrip(s) == RStrip(LStrip(s))

UpperLetters == "ABCDEFGHIJKLMNOPQRSTUVWXYZ"
LowerLetters == "abcdefghijklmnopqrstuvwxyz"

UpperSet == {SubSeq(UpperLetters, i, i) : i \in 1..Len(UpperLetters)}

ToLower ==
    [ch \in UpperSet |->
        LET i == CHOOSE j \in 1..Len(UpperLetters) : SubSeq(UpperLetters, j, j) = ch
        IN  SubSeq(LowerLetters, i, i)]

LowerChar(ch) == IF ch \in UpperSet THEN ToLower[ch] ELSE ch

\* str.lower()
RECURSIVE PyLower(_)
PyLower(s) ==
    IF Len(s) = 0 THEN s
    ELSE LowerChar(SubSeq(s, 1, 1)) \o PyLower(SubSeq(s, 2, Len(s)))

\* str.endswith(ch) for a one-character suffix
PyEndsWith(s, ch) == Len(s) > 0 /\ SubSeq(s, Len(s), Len(s)) = ch

\* len(s.split()): the number of maximal runs of non-space characters
RECURSIVE WordCount(_)
WordCount(s) ==
    LET t == LStrip(s) IN
    IF Len(t) = 0 THEN 0
    ELSE LET firstSpace == {i \in 1..Len(t) : IsSpace(SubSeq(t, i, i))} IN
         IF firstSpace = {} THEN 1
         ELSE LET i == CHOOSE j \in firstSpace : \A m \in firstSpace : j <= m
              IN  1 + WordCount(SubSeq(t, i, Len(t)))

----------------------------------------------------------------------------
(* JSON values as json.loads returns them.  A number is held in hundredths; *)
(* "big" is an integer literal beyond the range of a float (>= 2**1024).    *)

JAbsent == [t |-> "absent"]
JNull == [t |-> "null"]
JStr(str) == [t |-> "str", s |-> str]
JNum(n) == [t |-> "num", n |-> n]
JBool(b) == [t |-> "bool", b |-> b]
JBig == [t |-> "big"]

\* dict.get(field): None for a missing field and for a JSON null
IsNone(v) == v.t \in {"absent", "null"}

\* Python's truth value of a JSON value
PyTruthy(v) ==
    CASE v.t \in {"absent", "null"} -> FALSE
      [] v.t = "str" -> Len(v.s) > 0
      [] v.t = "num" -> v.n # 0
      [] v.t = "bool" -> v.b
      [] OTHER -> TRUE

Digits == "0123456789"
IsDigit(ch) == \E i \in 1..Len(Digits) : SubSeq(Digits, i, i) = ch
DigitVal(ch) == (CHOOSE i \in 1..Len(Digits) : SubSeq(Digits, i, i) = ch) - 1

RECURSIVE AllDigits(_)
AllDigits(s) ==
    Len(s) = 0 \/ (IsDigit(SubSeq(s, 1, 1)) /\ AllDigits(SubSeq(s, 2, Len(s))))

RECURSIVE IntOf(_)
IntOf(s) ==
    IF Len(s) = 0 THEN 0
    ELSE 10 * IntOf(SubSeq(s, 1, Len(s) - 1)) + DigitVal(SubSeq(s, Len(s), Len(s)))

\* float(str): surrounding whitespace is ignored; decimal literals "d+", "d+.d"
\* and "d+.dd" give their value (in hundredths); any other text of the model's
\* domain raises ValueError.
FloatOfStr(str) ==
    LET t == PyStrip(str)
        dots == {i \in 1..Len(t) : SubSeq(t, i, i) = "."}
    IN  IF Len(t) > 0 /\ dots = {} /\ AllDigits(t)
        THEN [ok |-> TRUE, val |-> 100 * IntOf(t)]
        ELSE IF Cardinality(dots) = 1
        THEN LET d == CHOOSE i \in dots : TRUE
                 ip == SubSeq(t, 1, d - 1)
                 fp == SubSeq(t, d + 1, Len(t))
             IN  IF Len(ip) > 0 /\ AllDigits(ip) /\ Len(fp) \in {1, 2} /\ AllDigits(fp)
                 THEN [ok |-> TRUE,
                       val |-> 100 * IntOf(ip) + (IF Len(fp) = 1 THEN 10 * IntOf(fp) ELSE IntOf(fp))]
                 ELSE [ok |-> FALSE, exc |-> "ValueError"]
        ELSE [ok |-> FALSE, exc |-> "ValueError"]

\* float(v) for a value v that dict.get returned
PyFloat(v) ==
    CASE v.t = "num" -> [ok |-> TRUE, val |-> v.n]
      [] v.t = "bool" -> [ok |-> TRUE, val |-> IF v.b THEN 100 ELSE 0]
      [] v.t = "str" -> FloatOfStr(v.s)
      [] v.t = "big" -> [ok |-> FALSE, exc |-> "OverflowError"]
      [] OTHER -> [ok |-> FALSE, exc |-> "TypeError"]

----------------------------------------------------------------------------
(* memory/extractor.py: key normalisation and candidate validation         *)

\* config.CANONICAL_KEY_MAPPING, in the order of the dict literal
CANONICAL_KEY_MAPPING ==
    << <<"name", <<"name", "full_name", "username", "first_name", "my_name">> >>,
       <<"language", <<"language", "programming_language", "preferred_language",
                       "lang", "code_language">> >>,
       <<"formatter", <<"formatter", "code_formatter", "formatting_tool", "format_tool">> >>,
       <<"location", <<"location", "city", "place", "where", "based_in">> >>,
       <<"timezone", <<"timezone", "tz", "time_zone">> >>,
       <<"project", <<"project", "working_on", "current_project", "hackathon_project">> >>,
       <<"job", <<"job", "occupation", "role", "work", "profession">> >>,
       <<"testing_framework", <<"testing_framework", "test_framework", "testing_tool">> >>,
       <<"api_framework", <<"api_framework", "api_tool", "web_framework">> >>,
       <<"type_hints", <<"type_hints", "use_type_hints", "type_annotations">> >>,
       <<"docstrings", <<"docstrings", "documentation_style", "doc_style">> >>,
       <<"line_length", <<"line_length", "max_line_length", "code_width">> >>,
       <<"database", <<"database", "db", "database_system">> >>,
       <<"latency_target", <<"latency_target", "target_latency", "latency_goal">> >> >>

CanonicalKeys == {CANONICAL_KEY_MAPPING[i][1] : i \in DOMAIN CANONICAL_KEY_MAPPING}

\* Alias lists in which "role" is registered for every canonical key.
AliasesLowerShared ==
    [i \in DOMAIN CANONICAL_KEY_MAPPING |->
        {PyLower(CANONICAL_KEY_MAPPING[i][2][a]) : a \in DOMAIN CANONICAL_KEY_MAPPING[i][2]}
            \cup {"role"}]

\* [a.lower() for a in aliases], per entry of the mapping
AliasesLower ==
    [i \in DOMAIN CANONICAL_KEY_MAPPING |->
        {PyLower(CANONICAL_KEY_MAPPING[i][2][a]) : a \in DOMAIN CANONICAL_KEY_MAPPING[i][2]}]

\* A normalization that knows no aliases.
NormalizeLoweredNoAlias(raw_key_lower) == raw_key_lower

\* _normalize_key, from the lower-cased, stripped key on
NormalizeLowered(raw_key_lower) ==
    LET hits == {i \in DOMAIN CANONICAL_KEY_MAPPING : raw_key_lower \in AliasesLower[i]}
    IN  IF raw_key_lower \in CanonicalKeys THEN raw_key_lower
        ELSE IF hits # {}
        THEN CANONICAL_KEY_MAPPING[CHOOSE i \in hits : \A j \in hits : i <= j][1]
        ELSE raw_key_lower

\* A normalization that lower-cases but does not strip.
NormalizeKeyNoStrip(raw_key) == NormalizeLowered(PyLower(raw_key))

\* _normalize_key
NormalizeKey(raw_key) == NormalizeLowered(PyLower(PyStrip(raw_key)))

MIN_CONFIDENCE == 40
MIN_IMPORTANCE == 20

ValidCategories == {"identity", "preference", "constraint", "instruction"}

\* float(mem.get(field, default)) inside try / except (TypeError, ValueError):
\* the value, the default on TypeError or ValueError, or the exception that escapes.
FloatField(v, default) ==
    IF v.t = "absent" THEN [ok |-> TRUE, val |-> default]
    ELSE LET f == PyFloat(v) IN
         IF f.ok THEN f
         ELSE IF f.exc \in {"TypeError", "ValueError"} THEN [ok |-> TRUE, val |-> default]
         ELSE f

\* The quality filter without the importance floor.
PassesFiltersNoImportance(confidence, importance) ==
    ~(confidence < MIN_CONFIDENCE)

\* The quality filter with the confidence floor one step too low.
PassesFiltersLowFloor(confidence, importance) ==
    /\ ~(confidence < MIN_CONFIDENCE - 10)
    /\ ~(importance < MIN_IMPORTANCE)

\* basic quality filters: neither confidence < MIN_CONFIDENCE nor importance < MIN_IMPORTANCE
PassesFilters(confidence, importance) ==
    /\ ~(confidence < MIN_CONFIDENCE)
    /\ ~(importance < MIN_IMPORTANCE)

Rejected == [kind |-> "none"]

\* _validate_and_normalize: [kind |-> "none"] for None, the normalized dict,
\* or the exception it raises.  A candidate is an object (t = "obj", with the
\* five fields) or another JSON value.  category, key and value are strings,
\* null or missing in the model's inputs.
ValidateAndNormalize(mem) ==
    IF mem.t # "obj" THEN Rejected
    ELSE IF ~PyTruthy(mem.category) \/ ~PyTruthy(mem.key) \/ IsNone(mem.value) THEN Rejected
    ELSE LET category == PyLower(PyStrip(mem.category.s))
             key == PyStrip(mem.key.s)
             value == PyStrip(mem.value.s)
             confidence == FloatField(mem.confidence, 100)
             importance == FloatField(mem.importance, 50)
         IN  IF key = "" \/ value = "" THEN Rejected
             ELSE IF category \notin ValidCategories THEN Rejected
             ELSE IF ~confidence.ok THEN [kind |-> "raise", exc |-> confidence.exc]
             ELSE IF ~importance.ok THEN [kind |-> "raise", exc |-> importance.exc]
             ELSE IF ~PassesFilters(confidence.val, importance.val) THEN Rejected
             ELSE [kind |-> "ok", category |-> category, key |-> NormalizeKey(key),
                   value |-> value, confidence |-> confidence.val,
                   importance |-> importance.val]

----------------------------------------------------------------------------
(* The generation service's answer and its parsing.  A response text is a  *)
(* sequence of chunks: "ws" (blanks), "nl" (a newline), "fence" (```),     *)
(* "label" (the word json), "prose" (words without brackets), "lb" ([),    *)
(* "rb" (]), "comma", and "val": the text of one JSON value, an object     *)
(* {...} or a scalar.                                                      *)

Chunk(k) == [k |-> k]
ValChunk(v) == [k |-> "val", v |-> v]

IsBlank(ch) == ch.k \in {"ws", "nl"}

RECURSIVE LStripChunks(_)
LStripChunks(t) ==
    IF t = <<>> THEN t ELSE IF IsBlank(Head(t)) THEN LStripChunks(Tail(t)) ELSE t

RECURSIVE RStripChunks(_)
RStripChunks(t) ==
    IF t = <<>> THEN t
    ELSE IF IsBlank(t[Len(t)]) THEN RStripChunks(SubSeq(t, 1, Len(t) - 1)) ELSE t

StripChunks(t) == RStripChunks(LStripChunks(t))

\* the chunk holds a "[" or "{" / a "]" or "}"
HasOpen(ch) == ch.k = "lb" \/ (ch.k = "val" /\ ch.v.t = "obj")
HasClose(ch) == ch.k = "rb" \/ (ch.k = "val" /\ ch.v.t = "obj")

\* _clean_response, lines 56-64: the markdown fence
CleanFence(t) ==
    IF t # <<>> /\ t[1].k = "fence"
    THEN LET nls == {i \in DOMAIN t : t[i].k = "nl"}
             a == IF nls = {} THEN t
                  ELSE SubSeq(t, (CHOOSE i \in nls : \A j \in nls : i <= j) + 1, Len(t))
             b == IF a # <<>> /\ a[Len(a)].k = "fence" THEN SubSeq(a, 1, Len(a) - 1) ELSE a
         IN  StripChunks(b)
    ELSE t

\* _clean_response, lines 66-68: the leading json label
CleanLabel(t) ==
    IF t # <<>> /\ t[1].k = "label" THEN StripChunks(Tail(t)) ELSE t

\* _clean_response, lines 70-75: cut before the first [ or {
CutToOpen(t) ==
    LET opens == {i \in DOMAIN t : HasOpen(t[i])} IN
    IF opens = {} THEN t
    ELSE SubSeq(t, CHOOSE i \in opens : \A j \in opens : i <= j, Len(t))

\* _clean_response, lines 77-81: cut after the last ] or }
CutToClose(t) ==
    LET closes == {i \in DOMAIN t : HasClose(t[i])} IN
    IF closes = {} THEN t
    ELSE SubSeq(t, 1, CHOOSE i \in closes : \A j \in closes : i >= j)

\* _clean_response: None gives the empty text
CleanResponse(llm) ==
    IF llm.kind = "null" THEN <<>>
    ELSE CutToClose(CutToOpen(CleanLabel(CleanFence(StripChunks(llm.text)))))

\* A parser that salvages every value it finds in the text as a list.
JsonLoadsSalvage(t) ==
    LET vals == SelectSeq(t, LAMBDA ch : ch.k = "val")
    IN  [ok |-> TRUE, val |-> [t |-> "list", items |-> [i \in DOMAIN vals |-> vals[i].v]]]

\* json.loads: one value, or [ value, value, ... ], blanks allowed between the
\* tokens; anything else is a JSONDecodeError.
JsonLoads(t) ==
    LET toks == SelectSeq(t, LAMBDA ch : ~IsBlank(ch))
        n == Len(toks)
    IN  IF n = 1 /\ toks[1].k = "val" THEN [ok |-> TRUE, val |-> toks[1].v]
        ELSE IF /\ n >= 2 /\ toks[1].k = "lb" /\ toks[n].k = "rb"
                /\ (n = 2 \/ n % 2 = 1)
                /\ \A i \in 2..(n - 1) :
                      toks[i].k = (IF i % 2 = 0 THEN "val" ELSE "comma")
        THEN [ok |-> TRUE,
              val |-> [t |-> "list",
                       items |-> [i \in 1..((n - 1) \div 2) |-> toks[2 * i].v]]]
        ELSE [ok |-> FALSE]

----------------------------------------------------------------------------
(* extract_and_store, step by step (SpecExtract)                           *)

Obj(c, k, v, conf, imp) ==
    [t |-> "obj", category |-> c, key |-> k, value |-> v, confidence |-> conf,
     importance |-> imp]

\* The candidates the generation service may return.
ExCandidates ==
    {Obj(JStr("identity"), JStr("name"), JStr("Alex"), cf, JNum(80)) :
        cf \in {JNum(90), JAbsent, JNull, JNum(30), JNum(40), JStr("0.3"), JStr("high"), JBig}}
    \cup {Obj(JStr("identity"), JStr("name"), JStr("Alex"), JNum(90), im) :
        im \in {JAbsent, JNum(10), JNum(20)}}
    \cup {Obj(JStr("Identity "), JStr(" Full_Name"), JStr("Alex"), JNum(90), JNum(80)),
          Obj(JStr("identity"), JStr("name"), JStr("Alexander"), JNum(95), JNum(80)),
          Obj(JStr("hobby"), JStr("name"), JStr("Alex"), JNum(90), JNum(80)),
          Obj(JStr("preference"), JStr("Favorite_Color "), JStr("teal"), JNum(90), JNum(80)),
          JNum(500)}

RECURSIVE SeqsUpTo(_, _)
SeqsUpTo(S, n) ==
    IF n = 0 THEN {<<>>}
    ELSE LET shorter == SeqsUpTo(S, n - 1)
         IN  shorter \cup {Append(q, x) : q \in shorter, x \in S}

\* The text of a JSON array of the values in b.
RECURSIVE ArrayItems(_)
ArrayItems(b) ==
    IF b = <<>> THEN <<>>
    ELSE IF Len(b) = 1 THEN <<ValChunk(b[1])>>
    ELSE <<ValChunk(b[1]), Chunk("comma"), Chunk("ws")>> \o ArrayItems(Tail(b))

ArrayText(b) == <<Chunk("lb")>> \o ArrayItems(b) \o <<Chunk("rb")>>

\* The ways the generation service words a batch b: the array alone, in a
\* code fence, between prose, without its closing bracket, without brackets.
Wordings == {"array", "fenced", "prose", "unclosed", "bare"}

ResponseText(b, wording) ==
    CASE wording = "array" -> ArrayText(b)
      [] wording = "fenced" ->
            <<Chunk("fence"), Chunk("label"), Chunk("nl")>> \o ArrayText(b)
                \o <<Chunk("nl"), Chunk("fence")>>
      [] wording = "prose" ->
            <<Chunk("prose"), Chunk("nl")>> \o ArrayText(b) \o <<Chunk("nl"), Chunk("prose")>>
      [] wording = "unclosed" -> <<Chunk("lb")>> \o ArrayItems(b)
      [] wording = "bare" -> ArrayItems(b)

ResponseTexts(b) == {ResponseText(b, wording) : wording \in Wordings}

\* Outcomes of the requests.post call of extract_and_store.
LlmOutcomes ==
    {[kind |-> "error"], [kind |-> "null"], [kind |-> "text", text |-> <<Chunk("prose")>>]}
    \cup {[kind |-> "text", text |-> ResponseText(b, wording)] :
            b \in SeqsUpTo(ExCandidates, MaxBatch), wording \in Wordings}

ExtractMsgs ==
    {"My name is Alex",
     "What is my name? ", "Is it? Am I Alex?", "hi there", " one  two\n", "?"}

\* Outcomes of one upsert_fact call: committed (True), rolled back (False),
\* or get_conn raising before the try block.
UpsertOutcomes == {"True", "False", "raise"}

\* The two guards of extract_and_store: a question, or fewer than 3 words.
SkipsExtraction(message) ==
    PyEndsWith(PyStrip(message), "?") \/ WordCount(message) < 3

ExDone(e, out) == [e EXCEPT !.pc = "done", !.out = out]

\* extract_and_store up to the loop: the two guards, the generation call,
\* _clean_response, json.loads and the list check.
ExStart(u, msg, llm) ==
    /\ ex.pc = "idle"
    /\ LET e0 == [ex EXCEPT !.user_id = u, !.message = msg, !.llm = llm]
           parsed == JsonLoads(CleanResponse(llm))
       IN  ex' =
            IF SkipsExtraction(msg) THEN ExDone(e0, "returned")
            ELSE LET e1 == [e0 EXCEPT !.llm_called = TRUE] IN
                 IF llm.kind = "error" THEN ExDone(e1, "returned")
                 ELSE IF CleanResponse(llm) = <<>> THEN [e1 EXCEPT !.pc = "loop"]
                 ELSE IF ~parsed.ok THEN ExDone(e1, "returned")
                 ELSE IF parsed.val.t # "list" THEN ExDone(e1, "returned")
                 ELSE [e1 EXCEPT !.pc = "loop", !.cands = parsed.val.items]
    /\ UNCHANGED <<factVars, concVars, sessVars, fmtVars, chatVars, pureVars>>

\* A dedupe key that also tells candidates apart by their confidence.
DedupeKeyWithConfidence(norm) ==
    <<norm.category, norm.key, norm.value, norm.confidence>>

\* dedupe_key = (norm["category"], norm["key"], norm["value"])
DedupeKey(norm) == <<norm.category, norm.key, norm.value>>

\* One iteration of `for raw in candidates`: validate, dedupe, upsert_fact.
ExCandidate ==
    /\ ex.pc = "loop"
    /\ ex.pos <= Len(ex.cands)
    /\ \E norm \in {ValidateAndNormalize(ex.cands[ex.pos])}, uout \in UpsertOutcomes :
       LET next == [ex EXCEPT !.pos = @ + 1]
       IN  IF norm.kind = "raise"
           THEN /\ ex' = ExDone(ex, "raised")
                /\ UNCHANGED factVars
           ELSE IF norm.kind = "none" \/ DedupeKey(norm) \in ex.seen
           THEN /\ ex' = next
                /\ UNCHANGED factVars
           ELSE /\ ex' = [next EXCEPT
                            !.seen = @ \cup {DedupeKey(norm)},
                            !.calls = Append(@, [pos |-> ex.pos, user_id |-> ex.user_id,
                                                 category |-> norm.category, key |-> norm.key,
                                                 value |-> norm.value,
                                                 confidence |-> norm.confidence,
                                                 importance |-> norm.importance,
                                                 result |-> uout])]
                /\ IF uout = "True"
                   THEN /\ facts' = UpsertStmt(facts, ex.user_id, norm.category, norm.key,
                                               norm.value, norm.confidence, norm.importance,
                                               now + 1)
                        /\ now' = now + 1
                        /\ UNCHANGED <<lastOp, everActive, scen>>
                   ELSE UNCHANGED factVars
    /\ UNCHANGED <<concVars, sessVars, fmtVars, chatVars, pureVars>>

\* The loop is over: extract_and_store returns None.
ExReturn ==
    /\ ex.pc = "loop"
    /\ ex.pos > Len(ex.cands)
    /\ ex' = ExDone(ex, "returned")
    /\ UNCHANGED <<factVars, concVars, sessVars, fmtVars, chatVars, pureVars>>

InitExtract == InitFactVars /\ InitConcIdle /\ InitSessIdle /\ InitExtIdle /\ InitRest

\* A background worker runs extract_and_store(user_id, message).
\* The generation service has an outcome only when it is called.
ExBegin ==
    /\ ex.pc = "idle"
    /\ \E u \in Users, msg \in ExtractMsgs :
          IF SkipsExtraction(msg)
          THEN ExStart(u, msg, [kind |-> "none"])
          ELSE \E llm \in LlmOutcomes : ExStart(u, msg, llm)

NextExtract ==
    \/ ExBegin
    \/ ExCandidate
    \/ ExReturn

SpecExtract == InitExtract /\ [][NextExtract]_vars

----------------------------------------------------------------------------
(* format_for_injection (SpecFormat)                                       *)

MaxTokens == 12
MaxFacts == 2
MaxEpisodes == 2

\* Python's s[:n] for a string s and n >= 0.
PyPrefix(s, n) == SubSeq(s, 1, Min(Len(s), n))

\* sep.join(parts)
RECURSIVE PyJoin(_, _)
PyJoin(sep, parts) ==
    IF parts = <<>> THEN ""
    ELSE IF Len(parts) = 1 THEN parts[1]
    ELSE parts[1] \o sep \o PyJoin(sep, Tail(parts))

\* f"- {fact['key']}: {fact['value']}"
FactLine(fact) == "- " \o fact.key \o ": " \o fact.value

\* f"- {ep['turn_range']}: {ep['summary'][:150]}..."
EpisodeLine(ep) == "- " \o ep.turn_range \o ": " \o PyPrefix(ep.summary, 150) \o "..."

\* A loop that skips a line over the budget and goes on (`continue`).
RECURSIVE EmitLinesSkipping(_, _, _)
EmitLinesSkipping(todo, st, char_budget) ==
    IF todo = <<>> THEN st
    ELSE IF st.current_chars + Len(todo[1]) > char_budget
         THEN EmitLinesSkipping(Tail(todo), st, char_budget)
    ELSE EmitLinesSkipping(Tail(todo),
                           [lines |-> Append(st.lines, todo[1]),
                            current_chars |-> st.current_chars + Len(todo[1])],
                           char_budget)

\* The loop `for x in xs: if current_chars + len(line) > char_budget: break`
\* over the lines still to come, from the state st = [lines, current_chars].
RECURSIVE EmitLines(_, _, _)
EmitLines(todo, st, char_budget) ==
    IF todo = <<>> THEN st
    ELSE IF st.current_chars + Len(todo[1]) > char_budget THEN st
    ELSE EmitLines(Tail(todo),
                   [lines |-> Append(st.lines, todo[1]),
                    current_chars |-> st.current_chars + Len(todo[1])],
                   char_budget)

\* format_for_injection(retrieval_results, max_tokens)
FormatForInjection(retrieval_results, max_tokens) ==
    LET char_budget == max_tokens * 4
        fs == retrieval_results.structured_facts
        eps == retrieval_results.episodic_context
        s0 == [lines |-> <<>>, current_chars |-> 0]
        s1 == IF fs # <<>>
              THEN EmitLines([i \in 1..Len(fs) |-> FactLine(fs[i])],
                             [s0 EXCEPT !.lines = Append(@, "## User Profile")],
                             char_budget)
              ELSE s0
        s2 == IF eps # <<>> /\ s1.current_chars < char_budget
              THEN EmitLines([i \in 1..Len(eps) |-> EpisodeLine(eps[i])],
                             [s1 EXCEPT !.lines = Append(@, "\n## Recent Context")],
                             char_budget)
              ELSE s1
    IN  IF s2.lines # <<>> THEN PyJoin("\n", s2.lines) ELSE "No relevant memory found."

\* Facts and episodes as retrieve_all hands them over (the fields the
\* formatter reads).
FormatFacts ==
    {[key |-> "name", value |-> "Alex"], [key |-> "city", value |-> "Pune"]}

LongSummary ==
    "The user introduced themselves as Alex, said they live in Pune and work as "
    \o "a backend engineer, asked for book recommendations about distributed "
    \o "systems and promised to report back next week."

FormatEpisodes ==
    {[turn_range |-> "turns -10-0", summary |-> "Alex said hello."],
     [turn_range |-> "turns 6-15", summary |-> LongSummary]}

\* The budgets tried: the small ones, and the one app.chat passes.
TokenBudgets == (0..MaxTokens) \cup {200}

\* The formatter runs on the arguments drawn by InitFormat.
Format ==
    /\ fmt.pc = "call"
    /\ fmt' = [fmt EXCEPT !.pc = "done",
                          !.out = FormatForInjection(fmt.results, fmt.max_tokens)]
    /\ UNCHANGED <<factVars, concVars, sessVars, extVars, chatVars, pureVars>>

InitFormat ==
    /\ InitFactVars /\ InitConcIdle /\ InitSessIdle /\ InitExtIdle /\ InitChatIdle
    /\ InitPureIdle
    /\ \E fs \in SeqsUpTo(FormatFacts, MaxFacts), eps \in SeqsUpTo(FormatEpisodes, MaxEpisodes),
          mt \in TokenBudgets :
          fmt = [pc |-> "call",
                 results |-> [structured_facts |-> fs, episodic_context |-> eps],
                 max_tokens |-> mt, out |-> ""]

NextFormat == Format

SpecFormat == InitFormat /\ [][NextFormat]_vars

----------------------------------------------------------------------------
(* The fact store called with a canonical key and with one of its aliases  *)
(* (SpecStoreKeys)                                                         *)

AliasKeys == {"name", "full_name"}

NextStoreKeys ==
    \/ \E u \in Users, k \in AliasKeys, v \in Values, conf \in Confs :
          UpsertFact(u, "identity", k, v, conf, 80)
    \/ \E u \in Users, k \in AliasKeys, v \in Values, conf \in Confs :
          UpsertFactError(u, "identity", k, v, conf, 80)
    \/ \E u \in Users, k \in AliasKeys : DeleteFact(u, "identity", k)
    \/ \E u \in Users, k \in AliasKeys : DeleteFactError(u, "identity", k)

SpecStoreKeys == InitFacts /\ [][NextStoreKeys]_vars

----------------------------------------------------------------------------
(* _normalize_key on its own (SpecKeys)                                    *)

UpperChar(ch) ==
    IF \E i \in 1..Len(LowerLetters) : SubSeq(LowerLetters, i, i) = ch
    THEN LET i == CHOOSE j \in 1..Len(LowerLetters) : SubSeq(LowerLetters, j, j) = ch
         IN  SubSeq(UpperLetters, i, i)
    ELSE ch

\* str.upper()
RECURSIVE PyUpper(_)
PyUpper(s) ==
    IF Len(s) = 0 THEN s
    ELSE UpperChar(SubSeq(s, 1, 1)) \o PyUpper(SubSeq(s, 2, Len(s)))

\* str.capitalize() of a lower-case string
PyCapitalize(s) ==
    IF Len(s) = 0 THEN s ELSE UpperChar(SubSeq(s, 1, 1)) \o SubSeq(s, 2, Len(s))

\* Every alias registered in CANONICAL_KEY_MAPPING.
RegisteredAliases ==
    UNION {{CANONICAL_KEY_MAPPING[i][2][a] : a \in DOMAIN CANONICAL_KEY_MAPPING[i][2]} :
            i \in DOMAIN CANONICAL_KEY_MAPPING}

\* Keys in trimmed lower case: every canonical key, every alias, and keys the
\* mapping does not know.
BaseKeys ==
    CanonicalKeys \cup RegisteredAliases \cup {"nickname", "pet name", "fullname", ""}

\* Respellings of a key that differ by letter case and surrounding white space.
Respellings(b) ==
    {b, PyUpper(b), " " \o b \o "  ", "\t" \o PyCapitalize(b) \o "\n"}

\* _normalize_key(raw) and _normalize_key(base)
NormalizeOnce ==
    /\ nk.pc = "call"
    /\ nk' = [nk EXCEPT !.pc = "once", !.out = NormalizeKey(nk.raw),
                        !.out_base = NormalizeKey(nk.base)]
    /\ UNCHANGED <<factVars, concVars, sessVars, extVars, fmtVars, chatVars, rt, dm, rq, so, th>>

\* _normalize_key applied to its own result
NormalizeAgain ==
    /\ nk.pc = "once"
    /\ nk' = [nk EXCEPT !.pc = "twice", !.again = NormalizeKey(nk.out)]
    /\ UNCHANGED <<factVars, concVars, sessVars, extVars, fmtVars, chatVars, rt, dm, rq, so, th>>

InitKeys ==
    /\ InitFactVars /\ InitConcIdle /\ InitSessIdle /\ InitExtIdle /\ InitFmtIdle
    /\ InitChatIdle
    /\ rt = RtIdle /\ dm = DmIdle /\ rq = RqIdle /\ so = SoIdle /\ th = ThIdle
    /\ \E b \in BaseKeys : \E r \in Respellings(b) :
          nk = [NkIdle EXCEPT !.pc = "call", !.base = b, !.raw = r]

NextKeys ==
    \/ NormalizeOnce
    \/ NormalizeAgain

SpecKeys == InitKeys /\ [][NextKeys]_vars

----------------------------------------------------------------------------
(* The chat request path, the executor and the summarizer (SpecChat)       *)

MAX_SHORT_TERM == 6
SUMMARIZE_EVERY == 20
max_workers == 2

MaxWindow == 21
MaxRequests == 12
MaxQueue == 2

\* The window capacity: MAX_SHORT_TERM as shipped, or a config.py whose
\* MAX_SHORT_TERM lies above the summarization threshold.
WindowCaps == {MAX_SHORT_TERM, MaxWindow}

ChatMsgs == {"My name is Alex"}

\* What call_llm returns for the prompt.
LlmReplies == {"Nice to meet you, Alex."}

_SKIP_KEYWORDS ==
    {"hi", "hello", "hey", "thanks", "thank you", "ok", "okay", "bye", "yes", "no"}

\* decide_mode without the strip
DecideModeNoStrip(message) ==
    IF PyLower(message) \in _SKIP_KEYWORDS THEN "session" ELSE "active"

\* decide_mode(message)
DecideMode(message) ==
    IF PyLower(PyStrip(message)) \in _SKIP_KEYWORDS THEN "session" ELSE "active"

\* should_summarize(session_length)
should_summarize(session_length) == session_length >= SUMMARIZE_EVERY

\* What the generation service answers to the summarization request.
SummaryOutcomes ==
    {[kind |-> "text", text |-> " Alex introduced themselves and greeted the assistant. "],
     [kind |-> "text", text |-> "Alex. "],
     [kind |-> "text", text |-> ""],
     [kind |-> "error"]}

\* summarize_turns whose fallback joins the pieces without a separator.
SummarizeTurnsBareJoin(turns, llm) ==
    IF llm.kind = "text" THEN PyStrip(llm.text)
    ELSE LET first == PySliceTo(turns, 5)
         IN  PyJoin("", [i \in 1..Len(first) |-> PyPrefix(first[i].content, 50)])

\* summarize_turns(turns): the stripped answer, or on any exception the
\* first 50 characters of the first 5 turns joined by " | ".
SummarizeTurns(turns, llm) ==
    IF llm.kind = "text" THEN PyStrip(llm.text)
    ELSE LET first == PySliceTo(turns, 5)
         IN  PyJoin(" | ", [i \in 1..Len(first) |-> PyPrefix(first[i].content, 50)])

\* Outcomes of store_episode: committed (True), rolled back (False), or
\* get_conn raising before the try block.
StoreOutcomes == {"True", "False", "raise"}

\* The row store_episode inserts.
EpisodeRow(user_id, summary, turn_start, turn_end) ==
    [user_id |-> user_id,
     turn_range |-> "turns " \o ToString(turn_start) \o "-" \o ToString(turn_end),
     summary |-> summary, turn_start |-> turn_start, turn_end |-> turn_end]

\* turn_end = turn_offset + len(session_history), one past the last turn.
TurnEndExclusive(turn_offset, session_history) == turn_offset + Len(session_history)

\* turn_end = turn_offset + len(session_history) - 1
TurnEnd(turn_offset, session_history) == turn_offset + Len(session_history) - 1

\* store_episode called outside any try block: its exception leaves the caller.
StoreEpisodeUncaught(store) == store

\* `success = store_episode(...)` inside compress_session_to_episodic's
\* try block: an exception of store_episode reaches `except Exception`,
\* which returns False.
StoreEpisodeInTry(store) == IF store = "raise" THEN "False" ELSE store

\* compress_session_to_episodic(user_id, session_history, turn_offset) under
\* the given outcomes of the generation call and of store_episode: the value
\* returned, the rows inserted, and the number of requests made to the
\* generation service and of store_episode calls. An exception of
\* store_episode is caught by the function's own except clause.
CompressSessionToEpisodic(user_id, session_history, turn_offset, llm, store) ==
    IF Len(session_history) < 5
    THEN [ret |-> FALSE, raised |-> FALSE, rows |-> <<>>,
          llm_calls |-> 0, store_calls |-> 0]
    ELSE LET summary == SummarizeTurns(session_history, llm)
             turn_start == turn_offset
             turn_end == TurnEnd(turn_offset, session_history)
             success == StoreEpisodeInTry(store)
         IN  IF summary = "" \/ Len(summary) < 10
             THEN [ret |-> FALSE, raised |-> FALSE, rows |-> <<>>,
                   llm_calls |-> 1, store_calls |-> 0]
             ELSE [ret |-> success = "True", raised |-> success = "raise",
                   rows |-> IF store = "True"
                            THEN <<EpisodeRow(user_id, summary, turn_start, turn_end)>>
                            ELSE <<>>,
                   llm_calls |-> 1, store_calls |-> 1]

\* dict.get with a default
Lookup(d, k, default) == IF k \in DOMAIN d THEN d[k] ELSE default

\* d[k] = v
Store(d, k, v) == [x \in DOMAIN d \cup {k} |-> IF x = k THEN v ELSE d[x]]

RECURSIVE SumOver(_, _)
SumOver(d, S) ==
    IF S = {} THEN 0
    ELSE LET x == CHOOSE y \in S : TRUE IN d[x] + SumOver(d, S \ {x})

Requests == SumOver(turn_counters, DOMAIN turn_counters)

\* What one /chat request does to the sessions, the counters and the executor:
\* session and counter initialisation, the user turn, the summarization check
\* with its submit and truncation (lines 59-85) and, when the request runs to
\* its end (completes), the assistant turn and the submit of extract_and_store
\* (lines 127-130).  An exception that leaves chat in between skips the latter.
ChatEffects(u, message, response, completes) ==
    /\ LET session0 == Lookup(sessions, u, SessionNew(capacity))
           current_turn == Lookup(turn_counters, u, 0) + 1
           pos0 == Lookup(positions, u, SessionNew(capacity))
           last == 2 * (current_turn - 1)
           session1 == SessionAdd(session0, "user", message)
           pos1 == SessionAdd(pos0, "user", last + 1)
           to_compress == PySliceTo(session1.history, -10)
           submit == should_summarize(Len(session1.history)) /\ to_compress # <<>>
           cut == PySliceTo(pos1.history, -10)
           compress == [fn |-> "compress_session_to_episodic", user_id |-> u,
                        session_history |-> to_compress,
                        turn_offset |-> current_turn - Len(session1.history),
                        positions |-> {cut[i].content : i \in DOMAIN cut}]
           session2 == IF submit
                       THEN [session1 EXCEPT !.history = PySliceFrom(@, -10)]
                       ELSE session1
           pos2 == IF submit THEN [pos1 EXCEPT !.history = PySliceFrom(@, -10)] ELSE pos1
           extract == [fn |-> "extract_and_store", user_id |-> u, message |-> message]
       IN  /\ sessions' = Store(sessions, u,
                                IF completes
                                THEN SessionAdd(session2, "assistant", response)
                                ELSE session2)
           /\ positions' = Store(positions, u,
                                 IF completes
                                 THEN SessionAdd(pos2, "assistant", last + 2)
                                 ELSE pos2)
           /\ turn_counters' = Store(turn_counters, u, current_turn)
           /\ executor' = executor \o (IF submit THEN <<compress>> ELSE <<>>)
                                   \o (IF completes THEN <<extract>> ELSE <<>>)
           /\ truncated' = Store(truncated, u,
                                 Lookup(truncated, u, {})
                                 \cup (IF submit THEN compress.positions ELSE {}))
           /\ dispatched' = Store(dispatched, u,
                                  Lookup(dispatched, u, 0) + (IF submit THEN 1 ELSE 0))

\* POST /chat, one whole request with the reply call_llm returned.  Retrieval
\* only reads the stores and only shapes the prompt.
Chat(u, message, response) ==
    /\ Requests < MaxRequests
    /\ Len(executor) < MaxQueue
    /\ ChatEffects(u, message, response, TRUE)
    /\ UNCHANGED <<capacity, episodes>>
    /\ UNCHANGED <<factVars, concVars, sessVars, extVars, fmtVars, pureVars>>

\* The i-th pending task leaves the queue.
Taken(i) == SubSeq(executor, 1, i - 1) \o SubSeq(executor, i + 1, Len(executor))

\* The tasks a free worker of the pool may be running: the max_workers oldest.
Runnable == 1..Min(Len(executor), max_workers)

\* A worker runs compress_session_to_episodic to its end.
RunCompress(i, llm, store) ==
    /\ i \in Runnable
    /\ executor[i].fn = "compress_session_to_episodic"
    /\ LET task == executor[i]
           done == CompressSessionToEpisodic(task.user_id, task.session_history,
                                             task.turn_offset, llm, store)
       IN  episodes' = episodes \o [r \in DOMAIN done.rows |->
                                       [row |-> done.rows[r], positions |-> task.positions]]
    /\ executor' = Taken(i)
    /\ UNCHANGED <<capacity, sessions, turn_counters, positions, truncated, dispatched>>
    /\ UNCHANGED <<factVars, concVars, sessVars, extVars, fmtVars, pureVars>>

\* A worker runs extract_and_store to its end.  The call writes to the fact
\* store only (SpecExtract follows it step by step); nothing the request path
\* or the summarizer reads changes.
RunExtract(i) ==
    /\ i \in Runnable
    /\ executor[i].fn = "extract_and_store"
    /\ executor' = Taken(i)
    /\ UNCHANGED <<capacity, sessions, turn_counters, episodes, positions, truncated,
                   dispatched>>
    /\ UNCHANGED <<factVars, concVars, sessVars, extVars, fmtVars, pureVars>>

InitChat ==
    /\ InitFactVars /\ InitConcIdle /\ InitSessIdle /\ InitExtIdle /\ InitFmtIdle
    /\ InitPureIdle
    /\ capacity \in WindowCaps
    /\ sessions = <<>>
    /\ turn_counters = <<>>
    /\ executor = <<>>
    /\ episodes = <<>>
    /\ positions = <<>>
    /\ truncated = <<>>
    /\ dispatched = <<>>

NextChat ==
    \/ \E u \in Users, message \in ChatMsgs, response \in LlmReplies :
          Chat(u, message, response)
    \/ \E i \in 1..max_workers, llm \in SummaryOutcomes, store \in StoreOutcomes :
          RunCompress(i, llm, store)
    \/ \E i \in 1..max_workers : RunExtract(i)

SpecChat == InitChat /\ [][NextChat]_vars

----------------------------------------------------------------------------
(* decide_mode on its own (SpecPolicy)                                     *)

\* Messages in trimmed lower case: every skip keyword, and messages that are
\* not skip keywords.
PolicyBases == _SKIP_KEYWORDS \cup {"hiya", "no way", "what is my name", ""}

\* The ways a message is spelled: letter case and surrounding white space
\* changed, or characters added.
Spellings ==
    {"same", "upper", "padded", "capitalized", "bang", "question", "comma", "more"}

Spell(b, spelling) ==
    CASE spelling = "same" -> b
      [] spelling = "upper" -> PyUpper(b)
      [] spelling = "padded" -> " " \o b \o "  "
      [] spelling = "capitalized" -> "\t" \o PyCapitalize(b) \o "\n"
      [] spelling = "bang" -> b \o "!"
      [] spelling = "question" -> b \o "?"
      [] spelling = "comma" -> b \o ", "
      [] spelling = "more" -> b \o " there"

\* mode = decide_mode(message)
Decide ==
    /\ dm.pc = "call"
    /\ dm' = [dm EXCEPT !.pc = "done", !.mode = DecideMode(dm.message)]
    /\ UNCHANGED <<factVars, concVars, sessVars, extVars, fmtVars, chatVars, nk, rt, rq, so, th>>

InitPolicy ==
    /\ InitFactVars /\ InitConcIdle /\ InitSessIdle /\ InitExtIdle /\ InitFmtIdle
    /\ InitChatIdle
    /\ nk = NkIdle /\ rt = RtIdle /\ rq = RqIdle /\ so = SoIdle /\ th = ThIdle
    /\ \E b \in PolicyBases, spelling \in Spellings :
          dm = [DmIdle EXCEPT !.pc = "call", !.base = b, !.spelling = spelling,
                              !.message = Spell(b, spelling)]

NextPolicy == Decide

SpecPolicy == InitPolicy /\ [][NextPolicy]_vars

----------------------------------------------------------------------------
(* retrieve_all: facts ranked by relevance or importance, episodes by      *)
(* distance (SpecRetrieve).  Scores of 0..1 are kept in hundredths, the    *)
(* weighted score in ten-thousandths.                                      *)

MaxTopK == 2        \* largest top_k_facts and top_k_episodes tried

\* retrieve_episodes(..., similarity_threshold: float = 0.4)
similarity_threshold == 40

RetrKeys == {"name", "job", "city"}
RetrImps == {20, 30, 90}
Queries == {"My name?", "job? ", "I moved"}

\* sub in s
PyIn(sub, s) ==
    \E i \in 1..(Len(s) - Len(sub) + 1) : SubSeq(s, i, i + Len(sub) - 1) = sub

\* One row of get_all_facts as the dict it is returned as.
FactDict(row) ==
    [category |-> row.category, key |-> row.key, value |-> row.value,
     confidence |-> row.confidence, importance |-> row.importance]

\* WHERE user_id = %s AND is_active = TRUE AND importance >= %s, without the
\* importance condition.
EligibleAnyImportance(row, user_id, min_importance) ==
    row.user_id = user_id /\ row.is_active

\* WHERE user_id = %s AND is_active = TRUE AND importance >= %s
Eligible(row, user_id, min_importance) ==
    row.user_id = user_id /\ row.is_active /\ row.importance >= min_importance

\* ORDER BY importance DESC, updated_at DESC: a comes before b.
Precedes(a, b) ==
    \/ a.importance > b.importance
    \/ a.importance = b.importance /\ a.updated_at > b.updated_at

\* The rows with index in S in the order of the ORDER BY clause (rows the
\* clause does not separate are left in table order).
RECURSIVE OrderBy(_, _)
OrderBy(tbl, S) ==
    IF S = {} THEN <<>>
    ELSE LET first == CHOOSE i \in S : \A j \in S \ {i} :
                          \/ Precedes(tbl[i], tbl[j])
                          \/ ~Precedes(tbl[j], tbl[i]) /\ i < j
         IN  <<tbl[first]>> \o OrderBy(tbl, S \ {first})

\* Outcomes of the query of get_all_facts and of retrieve_episodes: the rows,
\* an exception inside the try block (the function returns []), or get_conn
\* raising before the try block (the exception leaves the function).
QueryOutcomes == {"rows", "error", "raise"}

\* get_all_facts(user_id, min_importance) when get_conn returned.
GetAllFacts(tbl, user_id, min_importance, fetch) ==
    IF fetch = "rows"
    THEN LET rows == OrderBy(tbl, {i \in DOMAIN tbl :
                                     Eligible(tbl[i], user_id, min_importance)})
         IN  [i \in DOMAIN rows |-> FactDict(rows[i])]
    ELSE <<>>

\* What the embedding model does for one (query, key) pair: a cosine
\* similarity, or an exception.
SimOutcomes ==
    {[raises |-> FALSE, similarity |-> s] : s \in {-50, 100}}
        \cup {[raises |-> TRUE, similarity |-> 0]}

\* _compute_key_relevance(query, fact_key)
ComputeKeyRelevance(query, fact_key, sim) ==
    IF sim.raises
    THEN IF PyIn(PyLower(fact_key), PyLower(query)) THEN 100 ELSE 0
    ELSE Max(0, sim.similarity)

\* relevance + importance, unweighted
ScoreUnweighted(relevance, importance) == (relevance + importance) * 100

\* score = relevance * 0.7 + importance * 0.3
Score(relevance, importance) == relevance * 70 + importance * 30

\* sorted(keyed, key = .k, reverse = True): descending, equal keys in their
\* original order.
RECURSIVE PySortedReverse(_)
PySortedReverse(keyed) ==
    IF keyed = <<>> THEN <<>>
    ELSE LET first == CHOOSE i \in DOMAIN keyed :
                          /\ \A j \in DOMAIN keyed : keyed[j].k <= keyed[i].k
                          /\ \A j \in 1..(i - 1) : keyed[j].k < keyed[i].k
         IN  <<keyed[first]>>
                 \o PySortedReverse(SubSeq(keyed, 1, first - 1)
                                        \o SubSeq(keyed, first + 1, Len(keyed)))

Items(keyed) == [i \in DOMAIN keyed |-> keyed[i].item]

AboveThreshold(x) == x.k > 2000

\* retrieve_all, question branch: lines 69-78
QuestionFacts(all_facts, relevance, top_k_facts) ==
    LET scored_facts == [i \in DOMAIN all_facts |->
                            [k |-> Score(relevance[i], all_facts[i].importance),
                             item |-> all_facts[i]]]
        sorted == PySortedReverse(scored_facts)
    IN  Items(SelectSeq(PySliceTo(sorted, top_k_facts), AboveThreshold))

\* retrieve_all, statement branch: lines 81-85
StatementFacts(all_facts, top_k_facts) ==
    LET keyed == [i \in DOMAIN all_facts |->
                     [k |-> all_facts[i].importance, item |-> all_facts[i]]]
    IN  PySliceTo(Items(PySortedReverse(keyed)), top_k_facts)

\* The cosine distances the store may compute between a query and a summary.
Distances == {10, 30, 50}

\* One row of retrieve_episodes as the dict it is returned as.
EpisodeDict(row, distance) ==
    [turn_range |-> row.turn_range, summary |-> row.summary,
     turn_start |-> row.turn_start, turn_end |-> row.turn_end,
     distance |-> distance]

\* ORDER BY distance ASC over the rows with index in S (equal distances in
\* table order).
RECURSIVE OrderByDistance(_, _, _)
OrderByDistance(tbl, dists, S) ==
    IF S = {} THEN <<>>
    ELSE LET first == CHOOSE i \in S : \A j \in S \ {i} :
                          dists[i] < dists[j] \/ (dists[i] = dists[j] /\ i < j)
         IN  <<EpisodeDict(tbl[first].row, dists[first])>>
                 \o OrderByDistance(tbl, dists, S \ {first})

\* retrieve_episodes(user_id, query, top_k) when get_conn returned.
RetrieveEpisodes(tbl, user_id, dists, top_k, search) ==
    IF search = "rows"
    THEN LET near == {i \in DOMAIN tbl : /\ tbl[i].row.user_id = user_id
                                         /\ dists[i] < similarity_threshold}
         IN  PySliceTo(OrderByDistance(tbl, dists, near), top_k)
    ELSE <<>>

\* query.strip().endswith('?')
IsQuestion(query) == PyEndsWith(PyStrip(query), "?")

\* retrieve_all(user_id, query, top_k_facts, top_k_episodes) over the fact
\* table tbl and the episode table eps, under the outcomes of the two store
\* queries, of the embedding model (sims, one per fetched fact) and of the
\* distance computation (dists, one per episode row).
RetrieveAll(tbl, eps, user_id, query, top_k_facts, top_k_episodes, fetch, sims, search, dists) ==
    LET all_facts == GetAllFacts(tbl, user_id, 30, fetch)
        question == IsQuestion(query)
        relevance == [i \in DOMAIN all_facts |->
                         IF question
                         THEN ComputeKeyRelevance(query, all_facts[i].key, sims[i])
                         ELSE 0]
        structured_facts == IF question
                            THEN QuestionFacts(all_facts, relevance, top_k_facts)
                            ELSE StatementFacts(all_facts, top_k_facts)
        episodes_ == RetrieveEpisodes(eps, user_id, dists, top_k_episodes, search)
    IN  IF fetch = "raise" \/ search = "raise"
        THEN [out |-> "raised", all_facts |-> <<>>, relevance |-> <<>>,
              structured_facts |-> <<>>, episodic_context |-> <<>>, total_items |-> 0]
        ELSE [out |-> "returned", all_facts |-> all_facts, relevance |-> relevance,
              structured_facts |-> structured_facts,
              episodic_context |-> episodes_,
              total_items |-> Len(structured_facts) + Len(episodes_)]

\* One call of retrieve_all.
Retrieve(user_id, query, top_k_facts, top_k_episodes, fetch, search) ==
    /\ rt.pc = "idle"
    /\ LET n == IF IsQuestion(query)
                THEN Len(GetAllFacts(facts, user_id, 30, fetch)) ELSE 0
           mine == IF search = "rows"
                   THEN {i \in DOMAIN episodes : episodes[i].row.user_id = user_id}
                   ELSE {}
       IN  \E sims \in [1..n -> SimOutcomes], near \in [mine -> Distances] :
              LET dists == [i \in DOMAIN episodes |->
                               IF i \in mine THEN near[i] ELSE 50]
                  res == RetrieveAll(facts, episodes, user_id, query, top_k_facts,
                                     top_k_episodes, fetch, sims, search, dists)
              IN  rt' = [pc |-> "done", user_id |-> user_id, query |-> query,
                         top_k_facts |-> top_k_facts,
                         top_k_episodes |-> top_k_episodes,
                         fetch |-> fetch, search |-> search] @@ res
    /\ UNCHANGED <<factVars, concVars, sessVars, extVars, fmtVars, chatVars, nk, dm, rq, so, th>>

\* The episode table the calls search: two episodes of u1, one of u2.
StoredEpisodes ==
    <<[row |-> EpisodeRow("u1", "Alex introduced themselves.", 0, 9), positions |-> {}],
      [row |-> EpisodeRow("u2", "Sam asked about the weather.", 0, 9), positions |-> {}],
      [row |-> EpisodeRow("u1", "Alex talked about their job.", 10, 19), positions |-> {}]>>

\* The fact tables the calls read: a superseded row of u1, a row of u2, and
\* for each key of RetrKeys either no row or an active row of u1 with one of
\* RetrImps, written in table order or in the reverse order.
KeyOrder == <<"name", "job", "city">>

FactTable(imps, newest_first) ==
    LET present == SelectSeq([i \in 1..3 |-> i], LAMBDA i : imps[i] >= 0)
        mine == [n \in DOMAIN present |->
                    NewRow("u1", "identity", KeyOrder[present[n]], "Alex", 90,
                           imps[present[n]],
                           IF newest_first THEN 2 + n ELSE 6 - n)]
    IN  <<[NewRow("u1", "identity", "name", "Al", 50, 90, 1) EXCEPT !.is_active = FALSE],
          NewRow("u2", "identity", "name", "Sam", 90, 90, 2)>> \o mine

FactTables ==
    {FactTable(imps, newest_first) :
        imps \in [1..3 -> RetrImps \cup {-1}], newest_first \in BOOLEAN}

InitRetrieve ==
    /\ facts \in FactTables
    /\ now = 5
    /\ lastOp = NoOp
    /\ everActive = ActiveValues(facts) \cup {<<"u1", "identity", "name", "Al">>}
    /\ scen = -1
    /\ InitConcIdle /\ InitSessIdle /\ InitExtIdle /\ InitFmtIdle
    /\ InitPureIdle
    /\ capacity = 0
    /\ sessions = <<>>
    /\ turn_counters = <<>>
    /\ executor = <<>>
    /\ episodes = StoredEpisodes
    /\ positions = <<>>
    /\ truncated = <<>>
    /\ dispatched = <<>>

NextRetrieve ==
    \E user_id \in Users, query \in Queries, top_k_facts \in 1..MaxTopK,
       top_k_episodes \in 1..MaxTopK, fetch \in QueryOutcomes,
       search \in QueryOutcomes :
       Retrieve(user_id, query, top_k_facts, top_k_episodes, fetch, search)

SpecRetrieve == InitRetrieve /\ [][NextRetrieve]_vars

----------------------------------------------------------------------------
(* One /chat request under failures of the stores, of the embedding model  *)
(* and of the generation service (SpecRequest)                             *)

MaxChats == 2       \* /chat requests per behaviour of SpecRequest

\* The requests come from one user; the stores also hold rows of another.
RequestUsers == {"u1"}
RequestMsgs == {"hi", "My name?"}

\* What requests.post and the lines after it do inside call_llm: a JSON
\* answer with a response text, a timeout, a refused or failed connection,
\* or any other exception (HTTP error status, invalid JSON).
GenOutcomes ==
    {[kind |-> "response", text |-> "You are Alex."],
     [kind |-> "Timeout", text |-> ""],
     [kind |-> "ConnectionError", text |-> ""],
     [kind |-> "Exception", text |-> ""]}

\* call_llm(prompt): the exception handlers return a text, nothing is raised.
CallLlm(gen) ==
    CASE gen.kind = "response" -> gen.text
      [] gen.kind = "Timeout" -> "[error: LLM request timed out]"
      [] gen.kind = "ConnectionError" -> "[error: cannot reach LLM service]"
      [] OTHER -> "[error: LLM call failed]"

\* Lines 91-101 without the try/except: an exception of retrieve_all leaves
\* chat.
MemoryInjectionUnguarded(mode, retrieval) ==
    IF mode # "active" THEN [raised |-> FALSE, text |-> ""]
    ELSE IF retrieval.out = "raised" THEN [raised |-> TRUE, text |-> ""]
    ELSE [raised |-> FALSE, text |-> FormatForInjection(retrieval, 200)]

\* Lines 91-101: memory_injection, and whether an exception leaves chat.
MemoryInjection(mode, retrieval) ==
    IF mode # "active" THEN [raised |-> FALSE, text |-> ""]
    ELSE IF retrieval.out = "raised"
    THEN [raised |-> FALSE, text |-> "No relevant memory found."]
    ELSE [raised |-> FALSE, text |-> FormatForInjection(retrieval, 200)]

\* Lines 109-112: the facts section of the prompt.
ContextSection(memory_injection) ==
    IF memory_injection # "" /\ memory_injection # "No relevant memory found."
    THEN "User facts:\n" \o memory_injection \o "\n\n"
    ELSE ""

\* The embedding model: working (a similarity per key, a distance per
\* episode) or failing on every call.
EmbedOutcomes == {"up", "down"}

\* POST /chat, one whole request, under the outcomes of the two store
\* queries of retrieve_all, of the embedding model and of the generation
\* service.
ChatUnder(u, message, fetch, search, embedding, gen) ==
    /\ Requests < MaxChats
    /\ Len(executor) < MaxQueue
    /\ embedding = "down" => search # "rows"
    /\ LET mode == DecideMode(message)
           sims == [i \in DOMAIN facts |->
                       IF embedding = "down"
                       THEN [raises |-> TRUE, similarity |-> 0]
                       ELSE [raises |-> FALSE, similarity |-> 100]]
           dists == [i \in DOMAIN episodes |-> 10]
           response == CallLlm(gen)
       IN  \E retrieval \in {IF mode = "active"
                              THEN RetrieveAll(facts, episodes, u, message, 3, 2,
                                               fetch, sims, search, dists)
                              ELSE [out |-> "not called"]} :
           \E injection \in {MemoryInjection(mode, retrieval)} :
              /\ ChatEffects(u, message, response, ~injection.raised)
              /\ rq' = [pc |-> "done", user_id |-> u, message |-> message,
                        mode |-> mode, fetch |-> fetch, search |-> search,
                        embedding |-> embedding, gen |-> gen.kind,
                        context_section |-> ContextSection(injection.text),
                        out |-> IF injection.raised THEN "raised" ELSE "ChatResponse",
                        response |-> IF injection.raised THEN "" ELSE response]
    /\ UNCHANGED <<capacity, episodes>>
    /\ UNCHANGED <<factVars, concVars, sessVars, extVars, fmtVars, nk, rt, dm, so, th>>

InitRequest ==
    /\ facts = FactTable(<<30, 90, -1>>, TRUE)
    /\ now = 5
    /\ lastOp = NoOp
    /\ everActive = ActiveValues(facts) \cup {<<"u1", "identity", "name", "Al">>}
    /\ scen = -1
    /\ InitConcIdle /\ InitSessIdle /\ InitExtIdle /\ InitFmtIdle
    /\ InitPureIdle
    /\ capacity = MAX_SHORT_TERM
    /\ sessions = <<>>
    /\ turn_counters = <<>>
    /\ executor = <<>>
    /\ episodes = StoredEpisodes
    /\ positions = <<>>
    /\ truncated = <<>>
    /\ dispatched = <<>>

\* A request arrives; the stores and the embedding model are used in "active"
\* mode only.
ChatRequest(u, message, gen) ==
    IF DecideMode(message) = "active"
    THEN \E fetch \in QueryOutcomes, search \in QueryOutcomes,
            embedding \in EmbedOutcomes :
            ChatUnder(u, message, fetch, search, embedding, gen)
    ELSE ChatUnder(u, message, "unused", "unused", "unused", gen)

NextRequest ==
    \/ \E u \in RequestUsers, message \in RequestMsgs, gen \in GenOutcomes :
          ChatRequest(u, message, gen)
    \/ \E i \in 1..max_workers : RunExtract(i)

SpecRequest == InitRequest /\ [][NextRequest]_vars

----------------------------------------------------------------------------
(* The store operations under the outcomes of the pool, the embedding      *)
(* model and the statements, and the compression on top of them (SpecStore) *)

MaxBatchTurns == 10

\* database._pool after _init_pool: a pool, or None when PostgreSQL could
\* not be reached.
PoolStates == {"ready", "none"}

\* get_conn(): a connection, or RuntimeError when there is no pool.
GetConn(pool) == IF pool = "ready" THEN "conn" ELSE "RuntimeError"

\* What cur.execute or conn.commit does: succeeds, raises with the connection
\* still open (a rejected statement), or raises because the server closed
\* the connection.
StmtOutcomes == {"ok", "error", "lost"}

\* What embed() does: returns the vector, or raises.
EmbedCalls == {"ok", "raise"}

\* `except Exception: conn.rollback(); return False` that treats every
\* connection as open.
ExceptRollbackAlwaysOpen(failure) == "False"

\* `except Exception: conn.rollback(); return False` after the given failure:
\* rollback on a connection the server closed raises (psycopg2
\* InterfaceError), and that exception leaves the function.
ExceptRollback(failure) == IF failure = "lost" THEN "raise" ELSE "False"

\* The try block of a writing operation whose steps had the given outcomes,
\* in order: True after the commit, else the except clause for the first
\* step that raised.
RECURSIVE TryWrite(_)
TryWrite(steps) ==
    IF steps = <<>> THEN "True"
    ELSE IF steps[1] = "ok" THEN TryWrite(Tail(steps))
    ELSE ExceptRollback(steps[1])

\* The value store_episode returns ("raise": an exception leaves it).
\* get_conn is called before the try block; embed, execute and commit are
\* inside it.
StoreOutcome(pool, embedding, insert, commit) ==
    IF GetConn(pool) = "RuntimeError" THEN "raise"
    ELSE TryWrite(<<IF embedding = "ok" THEN "ok" ELSE "error", insert, commit>>)

\* store_episode(user_id, summary, turn_start, turn_end) on the table eps.
StoreEpisode(eps, user_id, summary, turn_start, turn_end, pool, embedding, insert, commit) ==
    LET out == StoreOutcome(pool, embedding, insert, commit)
    IN  [out |-> out,
         episodes |-> IF out = "True"
                      THEN Append(eps, [row |-> EpisodeRow(user_id, summary,
                                                           turn_start, turn_end),
                                        positions |-> {}])
                      ELSE eps]

\* upsert_fact on the table tbl: True after every commit.
UpsertFactUnder(tbl, u, c, k, v, conf, imp, t, pool, execute, commit) ==
    LET out == IF GetConn(pool) = "RuntimeError" THEN "raise"
               ELSE TryWrite(<<execute, commit>>)
    IN  [out |-> out,
         facts |-> IF out = "True" THEN UpsertStmt(tbl, u, c, k, v, conf, imp, t) ELSE tbl]

\* delete_fact on the table tbl: True when the committed UPDATE matched a row.
DeleteFactUnder(tbl, u, c, k, t, pool, execute, commit) ==
    LET done == IF GetConn(pool) = "RuntimeError" THEN "raise"
                ELSE TryWrite(<<execute, commit>>)
    IN  [out |-> IF done = "True" /\ DeleteMatches(tbl, u, c, k) = {}
                 THEN "False" ELSE done,
         facts |-> IF done = "True" THEN DeleteStmt(tbl, u, c, k, t) ELSE tbl]

\* The outcome of a reading operation's query: get_conn before the try
\* block, the statement inside it (its except clause returns []).
QueryUnder(pool, execute) ==
    IF GetConn(pool) = "RuntimeError" THEN "raise"
    ELSE IF execute = "ok" THEN "rows" ELSE "error"

\* One row of get_facts_by_keys as the dict it is returned as.
FactDictWithTime(row) ==
    [category |-> row.category, key |-> row.key, value |-> row.value,
     confidence |-> row.confidence, importance |-> row.importance,
     updated_at |-> row.updated_at]

\* get_facts_by_keys(user_id, keys): [] for no keys, before any connection
\* is asked for.
GetFactsByKeys(tbl, user_id, keys, fetch) ==
    IF keys = <<>> \/ fetch # "rows" THEN <<>>
    ELSE LET rows == OrderBy(tbl, {i \in DOMAIN tbl :
                                     /\ tbl[i].user_id = user_id
                                     /\ \E n \in DOMAIN keys : tbl[i].key = keys[n]
                                     /\ tbl[i].is_active})
         IN  [i \in DOMAIN rows |-> FactDictWithTime(rows[i])]

\* ORDER BY created_at DESC over the rows with index in S.
RECURSIVE NewestFirst(_, _)
NewestFirst(tbl, S) ==
    IF S = {} THEN <<>>
    ELSE LET last == CHOOSE i \in S : \A j \in S : j <= i
         IN  <<[turn_range |-> tbl[last].row.turn_range,
                summary |-> tbl[last].row.summary,
                turn_start |-> tbl[last].row.turn_start,
                turn_end |-> tbl[last].row.turn_end]>>
                 \o NewestFirst(tbl, S \ {last})

\* get_recent_episodes(user_id, limit)
GetRecentEpisodes(tbl, user_id, limit, fetch) ==
    IF fetch = "rows"
    THEN PySliceTo(NewestFirst(tbl, {i \in DOMAIN tbl : tbl[i].row.user_id = user_id}),
                   limit)
    ELSE <<>>

\* The record of one finished call.
Called(op, args, pool, outcomes, raised, ret) ==
    [pc |-> "done", op |-> op, args |-> args, pool |-> pool, outcomes |-> outcomes,
     raised |-> raised, ret |-> ret, pre_facts |-> facts, pre_episodes |-> episodes]

StoredSummaries == {"Alex said hello to the assistant."}

TurnRanges == {<<0, 9>>, <<10, 19>>}

StoreEpisodeCall ==
    /\ so.pc = "idle"
    /\ \E u \in Users, summary \in StoredSummaries, range \in TurnRanges,
          pool \in PoolStates, embedding \in EmbedCalls,
          insert \in StmtOutcomes, commit \in StmtOutcomes :
          \E res \in {StoreEpisode(episodes, u, summary, range[1], range[2],
                                    pool, embedding, insert, commit)} :
             /\ episodes' = res.episodes
             /\ so' = Called("store_episode",
                             [user_id |-> u, summary |-> summary,
                              turn_start |-> range[1], turn_end |-> range[2]],
                             pool, <<embedding, insert, commit>>,
                             res.out = "raise",
                             IF res.out = "raise" THEN "none" ELSE res.out)
    /\ UNCHANGED <<facts, now, lastOp, everActive, scen>>
    /\ UNCHANGED <<concVars, sessVars, extVars, fmtVars, nk, rt, dm, rq, th>>
    /\ UNCHANGED <<capacity, sessions, turn_counters, executor, positions, truncated, dispatched>>

UpsertFactCall ==
    /\ so.pc = "idle"
    /\ \E u \in Users, k \in RetrKeys, conf \in Confs,
          pool \in PoolStates, execute \in StmtOutcomes, commit \in StmtOutcomes :
          \E res \in {UpsertFactUnder(facts, u, "identity", k, "Alexander", conf, 80,
                                       now + 1, pool, execute, commit)} :
             /\ facts' = res.facts
             /\ so' = Called("upsert_fact",
                             [user_id |-> u, category |-> "identity", key |-> k,
                              value |-> "Alexander", confidence |-> conf],
                             pool, <<execute, commit>>,
                             res.out = "raise",
                             IF res.out = "raise" THEN "none" ELSE res.out)
    /\ now' = now + 1
    /\ everActive' = everActive \cup ActiveValues(facts')
    /\ UNCHANGED <<lastOp, scen>>
    /\ UNCHANGED <<concVars, sessVars, extVars, fmtVars, chatVars, nk, rt, dm, rq, th>>

DeleteFactCall ==
    /\ so.pc = "idle"
    /\ \E u \in Users, k \in RetrKeys,
          pool \in PoolStates, execute \in StmtOutcomes, commit \in StmtOutcomes :
          \E res \in {DeleteFactUnder(facts, u, "identity", k, now + 1,
                                       pool, execute, commit)} :
             /\ facts' = res.facts
             /\ so' = Called("delete_fact",
                             [user_id |-> u, category |-> "identity", key |-> k],
                             pool, <<execute, commit>>,
                             res.out = "raise",
                             IF res.out = "raise" THEN "none" ELSE res.out)
    /\ now' = now + 1
    /\ UNCHANGED <<lastOp, everActive, scen>>
    /\ UNCHANGED <<concVars, sessVars, extVars, fmtVars, chatVars, nk, rt, dm, rq, th>>

\* A reading operation ran: nothing but the call record changes.
ReadCalled(op, args, pool, execute, ret) ==
    /\ so' = Called(op, args, pool, <<execute>>, QueryUnder(pool, execute) = "raise", ret)
    /\ UNCHANGED <<factVars, concVars, sessVars, extVars, fmtVars, chatVars, nk, rt, dm, rq, th>>

GetAllFactsCall ==
    /\ so.pc = "idle"
    /\ \E u \in Users, pool \in PoolStates, execute \in StmtOutcomes :
          ReadCalled("get_all_facts", [user_id |-> u, min_importance |-> 30],
                     pool, execute,
                     GetAllFacts(facts, u, 30, QueryUnder(pool, execute)))

KeyLists == {<<>>, <<"name">>, <<"job", "name">>}

GetFactsByKeysCall ==
    /\ so.pc = "idle"
    /\ \E u \in Users, keys \in KeyLists, pool \in PoolStates, execute \in StmtOutcomes :
          /\ so' = Called("get_facts_by_keys", [user_id |-> u, keys |-> keys],
                          pool, <<execute>>,
                          keys # <<>> /\ QueryUnder(pool, execute) = "raise",
                          GetFactsByKeys(facts, u, keys, QueryUnder(pool, execute)))
          /\ UNCHANGED <<factVars, concVars, sessVars, extVars, fmtVars, chatVars>>
          /\ UNCHANGED <<nk, rt, dm, rq, th>>

RetrieveEpisodesCall ==
    /\ so.pc = "idle"
    /\ \E u \in Users, dists \in [DOMAIN episodes -> {10, 50}],
          pool \in PoolStates, embedding \in EmbedCalls, execute \in StmtOutcomes :
          ReadCalled("retrieve_episodes", [user_id |-> u, top_k |-> MaxTopK],
                     pool, IF embedding = "ok" THEN execute ELSE "error",
                     RetrieveEpisodes(episodes, u, dists, MaxTopK,
                                      QueryUnder(pool, IF embedding = "ok" THEN execute
                                                       ELSE "error")))

GetRecentEpisodesCall ==
    /\ so.pc = "idle"
    /\ \E u \in Users, limit \in 1..MaxTopK, pool \in PoolStates, execute \in StmtOutcomes :
          ReadCalled("get_recent_episodes", [user_id |-> u, limit |-> limit],
                     pool, execute,
                     GetRecentEpisodes(episodes, u, limit, QueryUnder(pool, execute)))

\* The contents a batch of turns is filled with.
TurnContents ==
    {"", "hi", "My name is Alex and I have lived in Pune for nearly ten years now."}

\* A batch of n turns, user and assistant alternating, all with one content.
Batch(n, content) ==
    [i \in 1..n |-> [role |-> IF i % 2 = 1 THEN "user" ELSE "assistant",
                     content |-> content]]

TurnOffsets == {0, 11}

\* One compress_session_to_episodic(user_id, session_history, turn_offset)
\* call: summarize_turns, then store_episode on the episode table.
CompressCall ==
    /\ so.pc = "idle"
    /\ \E u \in Users, n \in 0..MaxBatchTurns, content \in TurnContents,
          turn_offset \in TurnOffsets, llm \in SummaryOutcomes,
          pool \in PoolStates, embedding \in EmbedCalls,
          insert \in StmtOutcomes, commit \in StmtOutcomes :
          \E res \in {CompressSessionToEpisodic(u, Batch(n, content), turn_offset, llm,
                          StoreOutcome(pool, embedding, insert, commit))} :
             /\ episodes' = episodes \o [i \in DOMAIN res.rows |->
                                           [row |-> res.rows[i], positions |-> {}]]
             /\ so' = Called("compress_session_to_episodic",
                             [user_id |-> u, session_history |-> Batch(n, content),
                              turn_offset |-> turn_offset],
                             pool, <<embedding, insert, commit>>, res.raised, res.ret)
                       @@ [llm |-> llm, llm_calls |-> res.llm_calls,
                           store_calls |-> res.store_calls]
    /\ UNCHANGED <<facts, now, lastOp, everActive, scen>>
    /\ UNCHANGED <<concVars, sessVars, extVars, fmtVars, nk, rt, dm, rq, th>>
    /\ UNCHANGED <<capacity, sessions, turn_counters, executor, positions, truncated, dispatched>>

InitStore ==
    /\ facts = FactTable(<<30, 90, -1>>, TRUE)
    /\ now = 5
    /\ lastOp = NoOp
    /\ everActive = ActiveValues(facts) \cup {<<"u1", "identity", "name", "Al">>}
    /\ scen = -1
    /\ InitConcIdle /\ InitSessIdle /\ InitExtIdle /\ InitFmtIdle
    /\ InitPureIdle
    /\ capacity = MAX_SHORT_TERM
    /\ sessions = <<>>
    /\ turn_counters = <<>>
    /\ executor = <<>>
    /\ episodes \in {<<>>, StoredEpisodes}
    /\ positions = <<>>
    /\ truncated = <<>>
    /\ dispatched = <<>>

NextStore ==
    \/ StoreEpisodeCall
    \/ UpsertFactCall
    \/ DeleteFactCall
    \/ GetAllFactsCall
    \/ GetFactsByKeysCall
    \/ RetrieveEpisodesCall
    \/ GetRecentEpisodesCall
    \/ CompressCall

SpecStore == InitStore /\ [][NextStore]_vars

----------------------------------------------------------------------------
(* POST /chat statement by statement, with the background workers running  *)
(* between the statements (SpecSteps)                                       *)

\* An order of chat's statements in which extract_and_store is submitted
\* before the assistant turn is appended.
NextStepSubmitFirst(done) ==
    CASE done = "accepted" -> "decided"
      [] done = "decided" -> "retrieved"
      [] done = "retrieved" -> "generated"
      [] done = "generated" -> "submitted"
      [] done = "submitted" -> "appended"
      [] done = "appended" -> "returned"
      [] OTHER -> "none"

\* The order of chat's statements after the user turn and the summarization
\* check (lines 59-85): decide_mode (88), retrieval and prompt (91-118),
\* call_llm (122), session.add("assistant", ...) (127),
\* _executor.submit(extract_and_store, ...) (130), return (132).
NextStep(done) ==
    CASE done = "accepted" -> "decided"
      [] done = "decided" -> "retrieved"
      [] done = "retrieved" -> "generated"
      [] done = "generated" -> "appended"
      [] done = "appended" -> "submitted"
      [] done = "submitted" -> "returned"
      [] OTHER -> "none"

\* session.history of the user of the request in progress.
Window == sessions[rq.user_id].history

\* Lines 59-85: session and counter, the user turn, the summarization check.
ReqAccept(u, message) ==
    /\ rq.pc \in {"idle", "returned"}
    /\ Requests < MaxChats
    /\ Len(executor) < MaxQueue
    /\ ChatEffects(u, message, "", FALSE)
    /\ rq' = [pc |-> "accepted", user_id |-> u, message |-> message,
              mode |-> "", context_section |-> "", response |-> "", returned |-> "",
              window_at_decide |-> <<>>, window_at_retrieve |-> <<>>,
              window_at_generate |-> <<>>, window_at_submit |-> <<>>]
    /\ UNCHANGED <<capacity, episodes>>
    /\ UNCHANGED <<factVars, concVars, sessVars, extVars, fmtVars, nk, rt, dm, so, th>>

\* Line 88: mode = decide_mode(message)
ReqDecide ==
    /\ rq.pc # "idle" /\ NextStep(rq.pc) = "decided"
    /\ rq' = [rq EXCEPT !.pc = "decided", !.mode = DecideMode(rq.message),
                        !.window_at_decide = Window]
    /\ UNCHANGED <<factVars, concVars, sessVars, extVars, fmtVars, chatVars, nk, rt, dm, so, th>>

\* Lines 91-118: retrieve_all and format_for_injection in "active" mode, then
\* the prompt.
ReqRetrieve ==
    /\ rq.pc # "idle" /\ NextStep(rq.pc) = "retrieved"
    /\ IF rq.mode = "active"
       THEN \E fetch \in {"rows", "raise"} :
               \E retrieval \in {RetrieveAll(facts, episodes, rq.user_id, rq.message, 3, 2,
                                             fetch,
                                             [i \in DOMAIN facts |->
                                                 [raises |-> FALSE, similarity |-> 100]],
                                             "rows", [i \in DOMAIN episodes |-> 10])} :
                  rq' = [rq EXCEPT !.pc = "retrieved",
                                   !.context_section =
                                       ContextSection(MemoryInjection(rq.mode, retrieval).text),
                                   !.window_at_retrieve = Window]
       ELSE rq' = [rq EXCEPT !.pc = "retrieved"]
    /\ UNCHANGED <<factVars, concVars, sessVars, extVars, fmtVars, chatVars, nk, rt, dm, so, th>>

\* Line 122: response = call_llm(prompt)
ReqGenerate ==
    /\ rq.pc # "idle" /\ NextStep(rq.pc) = "generated"
    /\ \E gen \in GenOutcomes :
          rq' = [rq EXCEPT !.pc = "generated", !.response = CallLlm(gen),
                           !.window_at_generate = Window]
    /\ UNCHANGED <<factVars, concVars, sessVars, extVars, fmtVars, chatVars, nk, rt, dm, so, th>>

\* Line 127: session.add("assistant", response)
ReqAppend ==
    /\ rq.pc # "idle" /\ NextStep(rq.pc) = "appended"
    /\ sessions' = Store(sessions, rq.user_id,
                         SessionAdd(sessions[rq.user_id], "assistant", rq.response))
    /\ positions' = Store(positions, rq.user_id,
                          SessionAdd(positions[rq.user_id], "assistant",
                                     2 * turn_counters[rq.user_id]))
    /\ rq' = [rq EXCEPT !.pc = "appended"]
    /\ UNCHANGED <<capacity, turn_counters, executor, episodes, truncated, dispatched>>
    /\ UNCHANGED <<factVars, concVars, sessVars, extVars, fmtVars, nk, rt, dm, so, th>>

\* Line 130: _executor.submit(extract_and_store, user_id, message); submit
\* queues the task and returns.
ReqSubmit ==
    /\ rq.pc # "idle" /\ NextStep(rq.pc) = "submitted"
    /\ executor' = Append(executor, [fn |-> "extract_and_store",
                                     user_id |-> rq.user_id, message |-> rq.message])
    /\ rq' = [rq EXCEPT !.pc = "submitted", !.window_at_submit = Window]
    /\ UNCHANGED <<capacity, sessions, turn_counters, episodes, positions, truncated,
                   dispatched>>
    /\ UNCHANGED <<factVars, concVars, sessVars, extVars, fmtVars, nk, rt, dm, so, th>>

\* Line 132: return ChatResponse(response=response, ...)
ReqReturn ==
    /\ rq.pc # "idle" /\ NextStep(rq.pc) = "returned"
    /\ rq' = [rq EXCEPT !.pc = "returned", !.returned = rq.response]
    /\ UNCHANGED <<factVars, concVars, sessVars, extVars, fmtVars, chatVars, nk, rt, dm, so, th>>

NextSteps ==
    \/ \E u \in RequestUsers, message \in RequestMsgs : ReqAccept(u, message)
    \/ ReqDecide
    \/ ReqRetrieve
    \/ ReqGenerate
    \/ ReqAppend
    \/ ReqSubmit
    \/ ReqReturn
    \/ \E i \in 1..max_workers : RunExtract(i)

SpecSteps == InitRequest /\ [][NextSteps]_vars

----------------------------------------------------------------------------
(* extract_and_store followed by retrieve_all for the same user            *)
(* (SpecPipeline)                                                          *)

\* retrieve_all(user_id, query, top_k_facts=3, top_k_episodes=2), as chat
\* calls it, once the extraction of the user's message is over; the store
\* answers and the embedding model gives every key the same similarity.
RetrieveStored ==
    /\ ex.pc = "done"
    /\ rt.pc = "idle"
    /\ \E query \in Queries, sim \in SimOutcomes :
          \E res \in {RetrieveAll(facts, episodes, ex.user_id, query, 3, 2, "rows",
                                   [i \in DOMAIN facts |-> sim], "rows",
                                   [i \in DOMAIN episodes |-> 10])} :
             rt' = [pc |-> "done", user_id |-> ex.user_id, query |-> query,
                    top_k_facts |-> 3, top_k_episodes |-> 2,
                    fetch |-> "rows", search |-> "rows"] @@ res
    /\ UNCHANGED <<factVars, concVars, sessVars, extVars, fmtVars, chatVars, nk, dm, rq, so, th>>

NextPipeline ==
    \/ ExBegin
    \/ ExCandidate
    \/ ExReturn
    \/ RetrieveStored

SpecPipeline == InitExtract /\ [][NextPipeline]_vars

----------------------------------------------------------------------------
(* Two SessionMemory.add calls on one window at the same time (SpecAdds).  *)
(* chat is a plain def, so the server runs each request on a thread of its *)
(* pool, and the interpreter may switch threads between any two bytecodes  *)
(* of add.  A list is an object: th.heap holds the list objects made so    *)
(* far, th.cur is the one self.history refers to, and sm.history is its    *)
(* content.                                                                *)

MaxWindowCap == 3   \* largest max_history tried in SpecAdds
MaxPrior == 1       \* requests handled before the two of SpecHandlers

Threads == {1, 2}

\* The window and its list object after the attribute self.history is set
\* to list object `id` of heap.
Bound(heap, id) == [history |-> heap[id], max_history |-> sm.max_history]

\* line 12, LOAD_ATTR: self.history is read, the thread holds the list object.
AddLoadHistory(t) ==
    /\ th.pc[t] = "load"
    /\ th' = [th EXCEPT !.pc[t] = "append", !.ref[t] = th.cur]
    /\ added' = Append(added, th.turn[t])
    /\ UNCHANGED sm
    /\ UNCHANGED <<factVars, concVars, extVars, fmtVars, chatVars, nk, rt, dm, rq, so>>

\* line 12, the call: append to the list object the thread holds.
AddAppend(t) ==
    /\ th.pc[t] = "append"
    /\ LET heap == [th.heap EXCEPT ![th.ref[t]] = Append(@, th.turn[t])]
       IN  /\ th' = [th EXCEPT !.pc[t] = "compare", !.heap = heap]
           /\ sm' = Bound(heap, th.cur)
    /\ UNCHANGED added
    /\ UNCHANGED <<factVars, concVars, extVars, fmtVars, chatVars, nk, rt, dm, rq, so>>

\* line 13: if len(self.history) > self.max_history
AddCompare(t) ==
    /\ th.pc[t] = "compare"
    /\ th' = [th EXCEPT !.pc[t] =
                IF Len(th.heap[th.cur]) > sm.max_history THEN "load_slice" ELSE "done"]
    /\ UNCHANGED <<sm, added>>
    /\ UNCHANGED <<factVars, concVars, extVars, fmtVars, chatVars, nk, rt, dm, rq, so>>

\* line 14, LOAD_ATTR: self.history is read for the slice.
AddLoadForSlice(t) ==
    /\ th.pc[t] = "load_slice"
    /\ th' = [th EXCEPT !.pc[t] = "slice", !.ref[t] = th.cur]
    /\ UNCHANGED <<sm, added>>
    /\ UNCHANGED <<factVars, concVars, extVars, fmtVars, chatVars, nk, rt, dm, rq, so>>

\* line 14, BINARY_SUBSCR: [-self.max_history:] makes a new list object.
AddSlice(t) ==
    /\ th.pc[t] = "slice"
    /\ th' = [th EXCEPT !.pc[t] = "assign",
                        !.heap = Append(@, PySliceFrom(th.heap[th.ref[t]], 0 - sm.max_history)),
                        !.ref[t] = Len(th.heap) + 1]
    /\ UNCHANGED <<sm, added>>
    /\ UNCHANGED <<factVars, concVars, extVars, fmtVars, chatVars, nk, rt, dm, rq, so>>

\* line 14, STORE_ATTR: self.history = the new list.
AddAssign(t) ==
    /\ th.pc[t] = "assign"
    /\ th' = [th EXCEPT !.pc[t] = "done", !.cur = th.ref[t]]
    /\ sm' = Bound(th.heap, th.ref[t])
    /\ UNCHANGED added
    /\ UNCHANGED <<factVars, concVars, extVars, fmtVars, chatVars, nk, rt, dm, rq, so>>

\* The turns 1..k, as k earlier adds one after the other left them.
Earlier(k) == [i \in 1..k |-> [role |-> IF i % 2 = 1 THEN "user" ELSE "assistant", content |-> i]]

\* A window of capacity n that holds k earlier turns, and two threads about
\* to add turn k+1 and turn k+2.
InitAdds ==
    /\ InitFactVars /\ InitConcIdle /\ InitExtIdle /\ InitFmtIdle /\ InitChatIdle
    /\ nk = NkIdle /\ rt = RtIdle /\ dm = DmIdle /\ rq = RqIdle /\ so = SoIdle
    /\ \E n \in 1..MaxWindowCap, k \in 0..MaxWindowCap, r1 \in Roles, r2 \in Roles :
          /\ k <= n
          /\ sm = [history |-> Earlier(k), max_history |-> n]
          /\ added = Earlier(k)
          /\ th = [pc |-> <<"load", "load">>,
                   ref |-> <<0, 0>>,
                   turn |-> <<[role |-> r1, content |-> k + 1],
                              [role |-> r2, content |-> k + 2]>>,
                   heap |-> <<Earlier(k)>>,
                   cur |-> 1]

NextAdds ==
    \/ \E t \in Threads : AddLoadHistory(t)
    \/ \E t \in Threads : AddAppend(t)
    \/ \E t \in Threads : AddCompare(t)
    \/ \E t \in Threads : AddLoadForSlice(t)
    \/ \E t \in Threads : AddSlice(t)
    \/ \E t \in Threads : AddAssign(t)

SpecAdds == InitAdds /\ [][NextAdds]_vars

----------------------------------------------------------------------------
(* Two /chat requests of one user handled at the same time (SpecHandlers). *)
(* Each runs lines 63-71 of chat on its own thread, statement by statement *)
(* (the read and the write of `+= 1` apart), then the rest of the request. *)
(* th.heap holds the SessionMemory objects made so far, th.bind is the one *)
(* sessions[user_id] refers to, and sessions[user_id] is its content.      *)

HandlerUser == "u1"

\* The message of the request thread t handles, and the reply to it.
HandlerMsg(t) == IF t = 1 THEN "m1" ELSE "m2"
HandlerReply(t) == IF t = 1 THEN "r1" ELSE "r2"

\* sessions after object `id` of heap is what sessions[user_id] refers to.
Deref(heap, id) == Store(sessions, HandlerUser, heap[id])

\* line 63: if user_id not in sessions
ChatCheck(t) ==
    /\ th.pc[t] = "check"
    /\ th' = [th EXCEPT !.pc[t] =
                IF HandlerUser \in DOMAIN sessions THEN "get" ELSE "new_session"]
    /\ UNCHANGED chatVars
    /\ UNCHANGED <<factVars, concVars, sessVars, extVars, fmtVars, nk, rt, dm, rq, so>>

\* line 64: sessions[user_id] = SessionMemory()
ChatNewSession(t) ==
    /\ th.pc[t] = "new_session"
    /\ LET heap == Append(th.heap, SessionNew(capacity))
       IN  /\ th' = [th EXCEPT !.pc[t] = "new_counter", !.heap = heap, !.bind = Len(heap)]
           /\ sessions' = Deref(heap, Len(heap))
    /\ UNCHANGED <<capacity, turn_counters, executor, episodes, positions, truncated,
                   dispatched>>
    /\ UNCHANGED <<factVars, concVars, sessVars, extVars, fmtVars, nk, rt, dm, rq, so>>

\* line 65: turn_counters[user_id] = 0
ChatNewCounter(t) ==
    /\ th.pc[t] = "new_counter"
    /\ th' = [th EXCEPT !.pc[t] = "get"]
    /\ turn_counters' = Store(turn_counters, HandlerUser, 0)
    /\ UNCHANGED <<capacity, sessions, executor, episodes, positions, truncated,
                   dispatched>>
    /\ UNCHANGED <<factVars, concVars, sessVars, extVars, fmtVars, nk, rt, dm, rq, so>>

\* line 67: session = sessions[user_id]
ChatGetSession(t) ==
    /\ th.pc[t] = "get"
    /\ th' = [th EXCEPT !.pc[t] = "load_counter", !.session[t] = th.bind]
    /\ UNCHANGED chatVars
    /\ UNCHANGED <<factVars, concVars, sessVars, extVars, fmtVars, nk, rt, dm, rq, so>>

\* line 68, the read of turn_counters[user_id] += 1; KeyError when the other
\* request has made the session and not yet the counter.
ChatLoadCounter(t) ==
    /\ th.pc[t] = "load_counter"
    /\ th' = IF HandlerUser \in DOMAIN turn_counters
             THEN [th EXCEPT !.pc[t] = "store_counter",
                             !.loaded[t] = turn_counters[HandlerUser]]
             ELSE [th EXCEPT !.pc[t] = "raised"]
    /\ UNCHANGED chatVars
    /\ UNCHANGED <<factVars, concVars, sessVars, extVars, fmtVars, nk, rt, dm, rq, so>>

\* line 68, the write of turn_counters[user_id] += 1
ChatStoreCounter(t) ==
    /\ th.pc[t] = "store_counter"
    /\ th' = [th EXCEPT !.pc[t] = "current_turn"]
    /\ turn_counters' = Store(turn_counters, HandlerUser, th.loaded[t] + 1)
    /\ UNCHANGED <<capacity, sessions, executor, episodes, positions, truncated,
                   dispatched>>
    /\ UNCHANGED <<factVars, concVars, sessVars, extVars, fmtVars, nk, rt, dm, rq, so>>

\* line 69: current_turn = turn_counters[user_id]
ChatCurrentTurn(t) ==
    /\ th.pc[t] = "current_turn"
    /\ th' = [th EXCEPT !.pc[t] = "add_user", !.current_turn[t] = turn_counters[HandlerUser]]
    /\ UNCHANGED chatVars
    /\ UNCHANGED <<factVars, concVars, sessVars, extVars, fmtVars, nk, rt, dm, rq, so>>

\* The heap after session.add on the object thread t holds.
AddTo(t, role, content) ==
    [th.heap EXCEPT ![th.session[t]] = SessionAdd(@, role, content)]

\* line 71: session.add("user", message)
ChatAddUser(t) ==
    /\ th.pc[t] = "add_user"
    /\ LET heap == AddTo(t, "user", HandlerMsg(t))
       IN  /\ th' = [th EXCEPT !.pc[t] = "reply", !.heap = heap]
           /\ sessions' = Deref(heap, th.bind)
    /\ UNCHANGED <<capacity, turn_counters, executor, episodes, positions, truncated,
                   dispatched>>
    /\ UNCHANGED <<factVars, concVars, sessVars, extVars, fmtVars, nk, rt, dm, rq, so>>

\* lines 74-132 with a window below the summarization threshold: the reply is
\* added to the session, the extraction is submitted, the request completes.
ChatReply(t) ==
    /\ th.pc[t] = "reply"
    /\ ~should_summarize(Len(th.heap[th.session[t]].history))
    /\ LET heap == AddTo(t, "assistant", HandlerReply(t))
       IN  /\ th' = [th EXCEPT !.pc[t] = "done", !.heap = heap]
           /\ sessions' = Deref(heap, th.bind)
    /\ executor' = Append(executor, [fn |-> "extract_and_store", user_id |-> HandlerUser,
                                     message |-> HandlerMsg(t)])
    /\ UNCHANGED <<capacity, turn_counters, episodes, positions, truncated, dispatched>>
    /\ UNCHANGED <<factVars, concVars, sessVars, extVars, fmtVars, nk, rt, dm, rq, so>>

\* The turns of `prior` earlier requests handled one after the other.
PriorTurns(prior) ==
    [i \in 1..(2 * prior) |-> [role |-> IF i % 2 = 1 THEN "user" ELSE "assistant",
                               content |-> IF i % 2 = 1 THEN "m0" ELSE "r0"]]

\* A server that has handled `prior` requests of the user, with two more
\* requests of that user arriving.
InitHandlers ==
    /\ InitFactVars /\ InitConcIdle /\ InitSessIdle /\ InitExtIdle /\ InitFmtIdle
    /\ nk = NkIdle /\ rt = RtIdle /\ dm = DmIdle /\ rq = RqIdle /\ so = SoIdle
    /\ capacity = MAX_SHORT_TERM
    /\ executor = <<>> /\ episodes = <<>> /\ positions = <<>>
    /\ truncated = <<>> /\ dispatched = <<>>
    /\ \E prior \in 0..MaxPrior :
          LET s0 == [history |-> PriorTurns(prior), max_history |-> capacity] IN
          /\ sessions = IF prior = 0 THEN <<>> ELSE Store(<<>>, HandlerUser, s0)
          /\ turn_counters = IF prior = 0 THEN <<>> ELSE Store(<<>>, HandlerUser, prior)
          /\ th = [pc |-> <<"check", "check">>,
                   session |-> <<0, 0>>,
                   loaded |-> <<0, 0>>,
                   current_turn |-> <<0, 0>>,
                   heap |-> IF prior = 0 THEN <<>> ELSE <<s0>>,
                   bind |-> IF prior = 0 THEN 0 ELSE 1,
                   prior |-> prior]

NextHandlers ==
    \/ \E t \in Threads : ChatCheck(t)
    \/ \E t \in Threads : ChatNewSession(t)
    \/ \E t \in Threads : ChatNewCounter(t)
    \/ \E t \in Threads : ChatGetSession(t)
    \/ \E t \in Threads : ChatLoadCounter(t)
    \/ \E t \in Threads : ChatStoreCounter(t)
    \/ \E t \in Threads : ChatCurrentTurn(t)
    \/ \E t \in Threads : ChatAddUser(t)
    \/ \E t \in Threads : ChatReply(t)

SpecHandlers == InitHandlers /\ [][NextHandlers]_vars

----------------------------------------------------------------------------
(* The extractions of two successive requests on the pool (SpecOrder).     *)
(* Request m1 has completed and submitted its extract_and_store; request   *)
(* m2 of the same user follows and submits its own.  The executor hands    *)
(* the oldest pending task to a free worker; each task runs up to its      *)
(* upsert_fact call and then through the transaction of SpecConc.          *)

OrderUser == "u1"
OrderMsgs == <<"My name is Alex", "My name is Alexander">>

\* The candidate the generation service extracts from a message of OrderMsgs.
OrderValue(message) == IF message = OrderMsgs[1] THEN "Alex" ELSE "Alexander"

ExtractTask(message) ==
    [fn |-> "extract_and_store", user_id |-> OrderUser, message |-> message]

\* Request m2 runs to its end: line 130 submits its extraction.
SubmitSecond ==
    /\ Lookup(turn_counters, OrderUser, 0) = 1
    /\ turn_counters' = Store(turn_counters, OrderUser, 2)
    /\ executor' = Append(executor, ExtractTask(OrderMsgs[2]))
    /\ UNCHANGED <<capacity, sessions, episodes, positions, truncated, dispatched>>
    /\ UNCHANGED <<factVars, concVars, sessVars, extVars, fmtVars, pureVars>>

\* A free worker takes the oldest pending task and starts extract_and_store.
WTake(w) ==
    /\ wpc[w] = "idle"
    /\ executor # <<>>
    /\ executor[1].fn = "extract_and_store"
    /\ wpc' = [wpc EXCEPT ![w] = "extracting"]
    /\ wjob' = [wjob EXCEPT ![w] = [op |-> "extract", message |-> executor[1].message]]
    /\ executor' = Taken(1)
    /\ UNCHANGED <<wpend, wdone, wcommits, wrace>>
    /\ UNCHANGED <<capacity, sessions, turn_counters, episodes, positions, truncated,
                   dispatched>>
    /\ UNCHANGED <<factVars, sessVars, extVars, fmtVars, pureVars>>

\* The generation service has answered with one candidate for identity/name;
\* the task calls upsert_fact: conn = get_conn().
WExtracted(w) ==
    /\ wpc[w] = "extracting"
    /\ wpc' = [wpc EXCEPT ![w] = "conn"]
    /\ wjob' = [wjob EXCEPT ![w] =
                  [op |-> "upsert", user_id |-> OrderUser, category |-> "identity",
                   key |-> "name", value |-> OrderValue(wjob[w].message),
                   confidence |-> th.confidence, importance |-> 80]]
    /\ UNCHANGED <<wpend, wdone, wcommits, wrace>>
    /\ UNCHANGED <<factVars, sessVars, extVars, fmtVars, chatVars, pureVars>>

\* Request m1 has completed; the confidence both extractions will report.
InitOrder ==
    /\ InitFactVars /\ InitConcIdle /\ InitSessIdle /\ InitExtIdle /\ InitFmtIdle
    /\ nk = NkIdle /\ rt = RtIdle /\ dm = DmIdle /\ rq = RqIdle /\ so = SoIdle
    /\ capacity = MAX_SHORT_TERM
    /\ sessions = <<>> /\ episodes = <<>> /\ positions = <<>>
    /\ truncated = <<>> /\ dispatched = <<>>
    /\ turn_counters = Store(<<>>, OrderUser, 1)
    /\ executor = <<ExtractTask(OrderMsgs[1])>>
    /\ \E conf \in Confs : th = [pc |-> <<>>, confidence |-> conf]

NextOrder ==
    \/ SubmitSecond
    \/ \E w \in Workers : WTake(w)
    \/ \E w \in Workers : WExtracted(w)
    \/ \E w \in Workers : WExecute(w)
    \/ \E w \in Workers : WCommit(w)
    \/ \E w \in Workers : WRollback(w)

SpecOrder == InitOrder /\ [][NextOrder]_vars

----------------------------------------------------------------------------
(* Claims about the fact store, one call at a time                         *)

Triples == Users \X Categories \X Keys

\* C1: after any sequence of upsert_fact and delete_fact calls every
\* (user_id, category, key) has at most one row with is_active = TRUE.
C1_AtMostOneActive ==
    \A tr \in Triples :
        Cardinality(ActiveRows(facts, tr[1], tr[2], tr[3])) <= 1

\* C1 witness: a triple that was upserted, deleted and upserted again holds one
\* active row beside an inactive one.
C1_Witness ==
    \E tr \in Triples :
        /\ lastOp.op = "upsert" /\ lastOp.ret = "True"
        /\ <<lastOp.user_id, lastOp.category, lastOp.key>> = tr
        /\ Cardinality(ActiveRows(facts, tr[1], tr[2], tr[3])) = 1
        /\ Cardinality(TripleRows(facts, tr[1], tr[2], tr[3])) = 2

\* C3: when an active row exists, an executed upsert_fact replaces value,
\* confidence and importance if the new confidence >= the active row's, and
\* leaves the row's value, confidence and importance unchanged if it is lower;
\* after Alex@0.9, Alexander@0.95, Al@0.5 the one active row of key name holds
\* Alexander.
C3_MonotonicConfidence ==
    /\ (lastOp.op = "upsert" /\ lastOp.ret = "True") =>
          \A i \in ActiveRows(lastOp.pre, lastOp.user_id, lastOp.category, lastOp.key) :
              /\ facts[i].is_active
              /\ lastOp.confidence >= lastOp.pre[i].confidence =>
                    /\ facts[i].value = lastOp.value
                    /\ facts[i].confidence = lastOp.confidence
                    /\ facts[i].importance = lastOp.importance
              /\ lastOp.confidence < lastOp.pre[i].confidence =>
                    /\ facts[i].value = lastOp.pre[i].value
                    /\ facts[i].confidence = lastOp.pre[i].confidence
                    /\ facts[i].importance = lastOp.pre[i].importance
    /\ scen = 3 =>
          /\ Cardinality(ActiveRows(facts, "u1", "identity", "name")) = 1
          /\ \A i \in ActiveRows(facts, "u1", "identity", "name") :
                facts[i].value = "Alexander"

\* C3 witness: the three upserts of the scenario have run, the last one with a
\* confidence below the active row's.
C3_Witness ==
    /\ scen = 3
    /\ lastOp.op = "upsert" /\ lastOp.value = "Al"
    /\ \E i \in ActiveRows(lastOp.pre, "u1", "identity", "name") :
          lastOp.pre[i].confidence > lastOp.confidence

\* C2: upsert_fact calls for the same (user_id, category, key) running
\* concurrently on the two workers, starting with no active row, end in every
\* interleaving with exactly one committed active row for the triple: two
\* calls never both see "no active row" and both insert.
C2_ConcurrentUpsertsOneActive ==
    \A tr \in Triples :
        /\ Cardinality(ActiveRows(facts, tr[1], tr[2], tr[3])) <= 1
        /\ wcommits[tr] > 0 => Cardinality(ActiveRows(facts, tr[1], tr[2], tr[3])) = 1

\* C2 witness: two calls for one triple overlapped from "no active row", both
\* have committed, and the triple holds one active row.
C2_Witness ==
    /\ wrace
    /\ \A w \in Workers : wpc[w] = "idle"
    /\ \E tr \in Triples :
          /\ wcommits[tr] >= 2
          /\ Cardinality(ActiveRows(facts, tr[1], tr[2], tr[3])) = 1
          /\ Len(facts) = 1

\* C5: for every capacity N >= 1, after each add the window holds at most N
\* turns and equals the last min(number of adds, N) added turns in insertion
\* order; with N = 6, 14 adds leave exactly the last 6 turns.
C5_WindowIsLastN ==
    sm.max_history >= 1 =>
        LET n == Min(Len(added), sm.max_history) IN
        /\ Len(SessionGet(sm)) <= sm.max_history
        /\ SessionGet(sm) = [i \in 1..n |-> added[Len(added) - n + i]]

\* C5 witness: capacity 6 after 14 adds, holding turns 9..14.
C5_Witness ==
    /\ sm.max_history = 6
    /\ Len(added) = 14
    /\ Len(SessionGet(sm)) = 6
    /\ SessionGet(sm)[1].content = 9

\* The confidence / importance a candidate counts with: its number when the
\* field holds one (or text that reads as one), 1.0 / 0.5 when the field is
\* absent or unparsable.
CountsAs(v, default) ==
    CASE v.t = "num" -> v.n
      [] v.t = "bool" -> (IF v.b THEN 100 ELSE 0)
      [] v.t = "str" /\ FloatOfStr(v.s).ok -> FloatOfStr(v.s).val
      [] OTHER -> default

\* C9: extract_and_store never propagates an exception to its caller, whatever
\* the message, the outcome of the generation call, the JSON it parses to and
\* the outcome of each upsert_fact call.
C9_NeverRaises == ex.out # "raised"

\* C10: no candidate with confidence < 0.4 or importance < 0.2 is passed to
\* upsert_fact, at any position of the batch; an absent or unparsable
\* confidence / importance counts as 1.0 / 0.5, and the call carries the
\* value the candidate counts with.
C10_FloorsBeforeUpsert ==
    \A i \in DOMAIN ex.calls :
        LET call == ex.calls[i]
            raw == ex.cands[call.pos]
        IN  /\ CountsAs(raw.confidence, 100) >= 40
            /\ CountsAs(raw.importance, 50) >= 20
            /\ call.confidence = CountsAs(raw.confidence, 100)
            /\ call.importance = CountsAs(raw.importance, 50)

\* C10 witness: a batch of two whose first candidate (confidence 0.3) was
\* dropped and whose second (confidence "high", unparsable) was passed to
\* upsert_fact with confidence 1.0.
C10_Witness ==
    /\ ex.pc = "done" /\ ex.out = "returned"
    /\ Len(ex.cands) = 2
    /\ ex.cands[1].t = "obj" /\ ex.cands[1].confidence = JNum(30)
    /\ ex.cands[2].t = "obj" /\ ex.cands[2].confidence = JStr("high")
    /\ Len(ex.calls) = 1
    /\ ex.calls[1].pos = 2 /\ ex.calls[1].confidence = 100

\* C6: with the shipped window capacity MAX_SHORT_TERM, a user who keeps
\* sending messages reaches the summarization threshold: once the turns the
\* user's requests have appended up to a user turn number SUMMARIZE_EVERY
\* or more, a compression batch has been dispatched for that user.
C6_ShippedWindowReachesThreshold ==
    \A u \in DOMAIN turn_counters :
        (capacity = MAX_SHORT_TERM /\ 2 * turn_counters[u] - 1 >= SUMMARIZE_EVERY)
            => dispatched[u] >= 1

\* The conversation positions covered by the episodes stored for u.
Covered(u) ==
    UNION {episodes[i].positions : i \in {j \in DOMAIN episodes : episodes[j].row.user_id = u}}

\* A compression for u is still waiting in the executor.
CompressPending(u) ==
    \E i \in DOMAIN executor :
        executor[i].fn = "compress_session_to_episodic" /\ executor[i].user_id = u

\* C7: the window is cut to its last 10 turns only after the episode was
\* stored: once no compression of the user is pending, every turn chat has
\* cut from the window is covered by a stored episode (a failed compression
\* leaves the window untouched).
C7_TruncatedOnlyAfterStore ==
    \A u \in DOMAIN truncated :
        ~CompressPending(u) => truncated[u] \subseteq Covered(u)

\* C8: the text format_for_injection builds from facts and episodes has at
\* most max_tokens*4 characters, headers and line separators included (the
\* fixed "No relevant memory found." reply is left aside).
C8_OutputWithinBudget ==
    (fmt.pc = "done" /\ fmt.out # "No relevant memory found.")
        => Len(fmt.out) <= fmt.max_tokens * 4

\* The upsert_fact calls made so far for the triple tr.
CallsFor(tr) ==
    {i \in DOMAIN ex.calls :
        <<ex.calls[i].category, ex.calls[i].key, ex.calls[i].value>> = tr}

\* What each candidate of the batch normalizes to.
BatchNorms == [p \in DOMAIN ex.cands |-> ValidateAndNormalize(ex.cands[p])]

\* C11: within one batch, the candidates that are equal in (category,
\* canonical key, value) after normalization produce exactly one upsert_fact
\* call: at every point of the loop a triple has one call if a valid
\* candidate for it was processed and none otherwise, and that call is for
\* the first such candidate.
C11_OneCallPerTriple ==
    LET norms == BatchNorms
        valid == {p \in DOMAIN norms : norms[p].kind = "ok"}
        triple(p) == <<norms[p].category, norms[p].key, norms[p].value>>
    IN  \A q \in valid :
            LET done == {p \in valid : p < ex.pos /\ triple(p) = triple(q)}
            IN  /\ Cardinality(CallsFor(triple(q))) = (IF done = {} THEN 0 ELSE 1)
                /\ \A i \in CallsFor(triple(q)) : \A p \in done : ex.calls[i].pos <= p

\* C11 witness: a finished batch of two candidates worded differently
\* (" Full_Name" / "name", confidence 0.9 / absent) that normalize to the
\* same triple, with a single call, made for the first.
C11_Witness ==
    /\ ex.pc = "done" /\ ex.out = "returned"
    /\ Len(ex.cands) = 2
    /\ ex.cands[1].t = "obj" /\ ex.cands[1].key = JStr(" Full_Name")
    /\ ex.cands[2].t = "obj" /\ ex.cands[2].key = JStr("name")
    /\ ex.cands[2].confidence = JAbsent
    /\ \A p \in 1..2 : BatchNorms[p].kind = "ok" /\ BatchNorms[p].key = "name"
    /\ BatchNorms[1].value = BatchNorms[2].value
    /\ Len(ex.calls) = 1 /\ ex.calls[1].pos = 1

\* The tokens from toks[i] on are value, comma, value, ..., value, "]".
RECURSIVE ItemsThenClose(_, _)
ItemsThenClose(toks, i) ==
    /\ i + 1 <= Len(toks)
    /\ toks[i].k = "val"
    /\ \/ (i + 1 = Len(toks) /\ toks[i + 1].k = "rb")
       \/ (toks[i + 1].k = "comma" /\ ItemsThenClose(toks, i + 2))

\* The text is a JSON array: "[", values separated by commas, "]".
IsJsonArray(t) ==
    LET toks == SelectSeq(t, LAMBDA ch : ch.k \notin {"ws", "nl"})
    IN  /\ Len(toks) >= 2
        /\ toks[1].k = "lb"
        /\ \/ (Len(toks) = 2 /\ toks[2].k = "rb")
           \/ ItemsThenClose(toks, 2)

\* C12: when the cleaned response of the generation service is not a JSON
\* array (invalid JSON, or JSON for something else than a list), the call
\* issues no upsert_fact and leaves the fact store as it was.
C12_MalformedDiscarded ==
    (ex.llm_called /\ ex.llm.kind # "error" /\ ~IsJsonArray(CleanResponse(ex.llm)))
        => /\ ex.calls = <<>>
           /\ facts = <<>>

\* C12 witness: the answer is an array cut off before its "]", holding two
\* candidates that are valid on their own; the call has returned without
\* any upsert_fact.
C12_Witness ==
    /\ ex.pc = "done" /\ ex.out = "returned" /\ ex.llm_called
    /\ ex.llm.kind = "text"
    /\ Len(ex.llm.text) = 5
    /\ ex.llm.text[1].k = "lb" /\ ex.llm.text[5].k = "val"
    /\ ValidateAndNormalize(ex.llm.text[2].v).kind = "ok"
    /\ ValidateAndNormalize(ex.llm.text[5].v).kind = "ok"
    /\ ex.calls = <<>> /\ facts = <<>>

\* The last character of msg that is not white space is a question mark.
EndsWithQuestionMark(msg) ==
    \E i \in 1..Len(msg) :
        /\ SubSeq(msg, i, i) = "?"
        /\ \A j \in (i + 1)..Len(msg) : SubSeq(msg, j, j) \in {" ", "\t", "\n"}

\* The positions of msg where a word starts.
WordStarts(msg) ==
    {i \in 1..Len(msg) :
        /\ SubSeq(msg, i, i) \notin {" ", "\t", "\n"}
        /\ (i = 1 \/ SubSeq(msg, i - 1, i - 1) \in {" ", "\t", "\n"})}

\* C13: for a message that ends with a question mark after trimming, or has
\* fewer than 3 whitespace-separated words, extract_and_store neither calls
\* the generation service nor issues an upsert_fact call.
C13_GuardsSkipExtraction ==
    (ex.pc # "idle"
        /\ (EndsWithQuestionMark(ex.message) \/ Cardinality(WordStarts(ex.message)) < 3))
        => /\ ~ex.llm_called
           /\ ex.calls = <<>>
           /\ facts = <<>>

\* C13 witness: the call for a four-word question with a trailing blank has
\* returned without the generation service being called.
C13_Witness ==
    /\ ex.pc = "done" /\ ex.out = "returned"
    /\ ex.message = "What is my name? "
    /\ ~ex.llm_called /\ ex.calls = <<>>

\* C14: _normalize_key is idempotent and insensitive to letter case and
\* surrounding white space; a canonical key or registered alias yields its
\* canonical key, any other key its trimmed lower-case form.
C14_CanonicalizeLaws ==
    /\ nk.pc \in {"once", "twice"} =>
          /\ nk.out = nk.out_base
          /\ IF nk.base \in CanonicalKeys \cup RegisteredAliases
             THEN \E i \in DOMAIN CANONICAL_KEY_MAPPING :
                     /\ nk.out = CANONICAL_KEY_MAPPING[i][1]
                     /\ \/ nk.base = CANONICAL_KEY_MAPPING[i][1]
                        \/ \E a \in DOMAIN CANONICAL_KEY_MAPPING[i][2] :
                              nk.base = CANONICAL_KEY_MAPPING[i][2][a]
             ELSE nk.out = nk.base
    /\ nk.pc = "twice" => nk.again = nk.out

\* C14 witness: "\tFull_name\n" gave "name", as "full_name" did, and "name"
\* gave "name" again.
C14_Witness ==
    /\ nk.pc = "twice"
    /\ nk.base = "full_name" /\ nk.raw = "\tFull_name\n"
    /\ nk.out = "name" /\ nk.out_base = "name" /\ nk.again = "name"

\* C15: every upsert_fact call of extract_and_store carries a canonical
\* key: canonicalizing it again changes nothing, it is never an alias of
\* another key, and the raw keys " Full_Name" and "Favorite_Color " reach
\* the store as "name" and "favorite_color".
C15_UpsertKeyCanonical ==
    \A i \in DOMAIN ex.calls :
        LET k == ex.calls[i].key
            raw == ex.cands[ex.calls[i].pos].key
        IN  /\ NormalizeKey(k) = k
            /\ k \notin (RegisteredAliases \ CanonicalKeys)
            /\ raw = JStr(" Full_Name") => k = "name"
            /\ raw = JStr("Favorite_Color ") => k = "favorite_color"

\* C15 witness: a candidate with the raw key " Full_Name" was passed to
\* upsert_fact with the key "name".
C15_Witness ==
    \E i \in DOMAIN ex.calls :
        /\ ex.cands[ex.calls[i].pos].key = JStr(" Full_Name")
        /\ ex.calls[i].key = "name"
        /\ ex.calls[i].result = "True"
        /\ \E r \in DOMAIN facts : facts[r].key = "name" /\ facts[r].is_active

\* C16: upsert_fact canonicalizes its key before reading or writing, so an
\* upsert under an alias and one under the canonical key address the same
\* row: no user has two active rows of one category whose keys canonicalize
\* to the same key.
C16_AliasSameRow ==
    \A i, j \in DOMAIN facts :
        (/\ facts[i].is_active /\ facts[j].is_active
         /\ facts[i].user_id = facts[j].user_id
         /\ facts[i].category = facts[j].category
         /\ NormalizeKey(facts[i].key) = NormalizeKey(facts[j].key))
            => i = j

\* The rows of the store a retrieve_all call for rt.user_id may return: active,
\* of that user, importance at least 0.3.
EligibleRows ==
    {i \in DOMAIN facts : /\ facts[i].user_id = rt.user_id
                          /\ facts[i].is_active
                          /\ facts[i].importance >= 30}

\* 0.7 * relevance + 0.3 * importance of the i-th fetched fact, in
\* ten-thousandths.
ScoreAt(i) == 70 * rt.relevance[i] + 30 * rt.all_facts[i].importance

\* The position among the fetched facts of the n-th returned fact.
FetchedAt(n) == CHOOSE i \in DOMAIN rt.all_facts : rt.all_facts[i] = rt.structured_facts[n]

\* The fetched facts with their scores, filtered first (score > 0.2), then
\* sorted by score, then cut to top_k_facts.
FilterThenCut ==
    LET scored == [i \in DOMAIN rt.all_facts |-> [k |-> ScoreAt(i), item |-> rt.all_facts[i]]]
    IN  Items(PySliceTo(PySortedReverse(SelectSeq(scored, AboveThreshold)),
                        rt.top_k_facts))

\* C17: for a query that ends with a question mark, a retrieve_all call that
\* fetched the store's rows returns as structured_facts exactly the facts of
\* the user that are active with importance >= 0.3 and have
\* 0.7 * relevance + 0.3 * importance > 0.2, highest score first, at most
\* top_k_facts of them and the best ones; the list equals the one obtained by
\* filtering before cutting.
C17_QuestionFactsByScore ==
    (/\ rt.pc = "done" /\ rt.out = "returned" /\ rt.fetch = "rows"
     /\ EndsWithQuestionMark(rt.query))
        => LET sf == rt.structured_facts
               passing == {i \in DOMAIN rt.all_facts : ScoreAt(i) > 2000}
           IN  /\ Len(rt.all_facts) = Cardinality(EligibleRows)
               /\ {rt.all_facts[i] : i \in DOMAIN rt.all_facts}
                      = {FactDict(facts[i]) : i \in EligibleRows}
               /\ Len(sf) = Min(rt.top_k_facts, Cardinality(passing))
               /\ \A n \in DOMAIN sf :
                     \E i \in passing : rt.all_facts[i] = sf[n]
               /\ \A n, m \in DOMAIN sf :
                     n < m => /\ sf[n] # sf[m]
                              /\ ScoreAt(FetchedAt(n)) >= ScoreAt(FetchedAt(m))
               /\ \A i \in passing :
                     (\A n \in DOMAIN sf : sf[n] # rt.all_facts[i])
                         => \A n \in DOMAIN sf : ScoreAt(i) <= ScoreAt(FetchedAt(n))
               /\ sf = FilterThenCut

\* C17 witness: a question over three fetched facts with top_k_facts = 2; the
\* last fetched one scores 0.79 and the others 0.09, so it alone is returned.
C17_Witness ==
    /\ rt.pc = "done" /\ rt.out = "returned" /\ rt.fetch = "rows"
    /\ rt.query = "My name?"
    /\ rt.top_k_facts = 2
    /\ Len(rt.all_facts) = 3
    /\ ScoreAt(1) = 900 /\ ScoreAt(2) = 900 /\ ScoreAt(3) = 7900
    /\ rt.structured_facts = <<rt.all_facts[3]>>

\* The row of the store the n-th returned fact was read from.
RowAt(n) == CHOOSE i \in EligibleRows : FactDict(facts[i]) = rt.structured_facts[n]

\* C18: for a query that does not end with a question mark, a retrieve_all
\* call that fetched the store's rows returns as structured_facts the
\* top_k_facts first of the user's active facts with importance >= 0.3, by
\* importance descending and, among equal importance, most recently updated
\* first, whatever their relevance; total_items is the number of returned
\* facts plus the number of returned episodes.
C18_StatementFactsByImportance ==
    (/\ rt.pc = "done" /\ rt.out = "returned"
     /\ ~EndsWithQuestionMark(rt.query))
        => LET sf == rt.structured_facts
           IN  /\ rt.total_items = Len(sf) + Len(rt.episodic_context)
               /\ rt.fetch = "rows" =>
                     /\ Len(sf) = Min(rt.top_k_facts, Cardinality(EligibleRows))
                     /\ \A n \in DOMAIN sf :
                           \E i \in EligibleRows : FactDict(facts[i]) = sf[n]
                     /\ \A n, m \in DOMAIN sf :
                           n < m =>
                              \/ facts[RowAt(n)].importance > facts[RowAt(m)].importance
                              \/ /\ facts[RowAt(n)].importance = facts[RowAt(m)].importance
                                 /\ facts[RowAt(n)].updated_at > facts[RowAt(m)].updated_at
                     /\ \A i \in EligibleRows :
                           (\A n \in DOMAIN sf : sf[n] # FactDict(facts[i]))
                               => \A n \in DOMAIN sf :
                                     \/ facts[RowAt(n)].importance > facts[i].importance
                                     \/ /\ facts[RowAt(n)].importance = facts[i].importance
                                        /\ facts[RowAt(n)].updated_at > facts[i].updated_at

\* C18 witness: a statement over three eligible facts, two of equal
\* importance, with top_k_facts = 2; the more recently updated of the two is
\* returned after the most important one, and one episode is returned with
\* the two facts.
C18_Witness ==
    /\ rt.pc = "done" /\ rt.out = "returned" /\ rt.fetch = "rows"
    /\ rt.query = "I moved"
    /\ rt.top_k_facts = 2
    /\ Cardinality(EligibleRows) = 3
    /\ Len(rt.structured_facts) = 2
    /\ rt.structured_facts[1].importance = 90
    /\ rt.structured_facts[2].importance = 30
    /\ \E i \in EligibleRows :
          /\ facts[i].importance = 30
          /\ FactDict(facts[i]) # rt.structured_facts[2]
          /\ i > RowAt(2)
    /\ Len(rt.episodic_context) = 1
    /\ rt.total_items = 3

\* C19: decide_mode returns "session" exactly for the messages that are a
\* skip keyword up to letter case and surrounding white space, and "active"
\* for every other message, a skip keyword followed by punctuation or by more
\* words included.
C19_SessionIffSkipKeyword ==
    dm.pc = "done" =>
        LET keyword == /\ dm.base \in {"hi", "hello", "hey", "thanks", "thank you",
                                       "ok", "okay", "bye", "yes", "no"}
                       /\ dm.spelling \in {"same", "upper", "padded", "capitalized"}
        IN  /\ keyword => dm.mode = "session"
            /\ ~keyword => dm.mode = "active"

\* C19 witness: the message "\tThank you\n" was answered with "session".
C19_Witness ==
    /\ dm.pc = "done"
    /\ dm.message = "\tThank you\n"
    /\ dm.mode = "session"

\* C20: every /chat request ends with a ChatResponse, whatever the outcomes
\* of the store queries, of the embedding model and of the generation service;
\* the response carries the text call_llm returned (its error text on a
\* timeout or an unreachable service), and the user's window ends with the
\* user turn of the request followed by the assistant turn with that text.
C20_ChatAlwaysResponds ==
    rq.pc = "done" =>
        /\ rq.out = "ChatResponse"
        /\ rq.gen = "Timeout" => rq.response = "[error: LLM request timed out]"
        /\ rq.gen = "ConnectionError" => rq.response = "[error: cannot reach LLM service]"
        /\ rq.user_id \in DOMAIN sessions
        /\ LET h == sessions[rq.user_id].history
           IN  /\ Len(h) >= 2
               /\ h[Len(h) - 1] = [role |-> "user", content |-> rq.message]
               /\ h[Len(h)] = [role |-> "assistant", content |-> rq.response]

\* C20 witness: a request whose retrieval ran into get_conn raising and whose
\* generation call timed out returned the error text as its response, with no
\* facts section in the prompt.
C20_Witness ==
    /\ rq.pc = "done"
    /\ rq.mode = "active"
    /\ rq.fetch = "raise"
    /\ rq.embedding = "down"
    /\ rq.gen = "Timeout"
    /\ rq.context_section = ""
    /\ rq.out = "ChatResponse"
    /\ rq.response = "[error: LLM request timed out]"
    /\ sessions[rq.user_id].history
          = <<[role |-> "user", content |-> "My name?"],
              [role |-> "assistant", content |-> "[error: LLM request timed out]"]>>

\* C22: a delete_fact call whose statement commits returns True exactly when
\* an active row of the triple existed before the call; afterwards the triple
\* has no active row, every row it had is still stored (the deleted one
\* inactive, value unchanged) and the rows of every other triple are as
\* before; a delete that finds no active row returns False and changes
\* nothing, which is the case of a second delete of the same triple.
C22_DeleteFact ==
    lastOp.op = "delete" =>
        LET hit == DeleteMatches(lastOp.pre, lastOp.user_id, lastOp.category, lastOp.key)
        IN  /\ lastOp.committed => (lastOp.ret = "True" <=> hit # {})
            /\ lastOp.ret = "True" => lastOp.committed /\ hit # {}
            /\ lastOp.committed =>
                  ActiveRows(facts, lastOp.user_id, lastOp.category, lastOp.key) = {}
            /\ DOMAIN facts = DOMAIN lastOp.pre
            /\ \A i \in hit :
                  lastOp.committed =>
                  /\ ~facts[i].is_active
                  /\ [facts[i] EXCEPT !.is_active = TRUE,
                                      !.updated_at = lastOp.pre[i].updated_at]
                        = lastOp.pre[i]
            /\ \A i \in DOMAIN lastOp.pre \ hit : facts[i] = lastOp.pre[i]
            /\ lastOp.ret = "False" => facts = lastOp.pre

\* A first delete: an active row existed, True is returned, the row is kept
\* as inactive while another user's active row of the same key is untouched.
C22_Witness ==
    /\ lastOp.op = "delete" /\ lastOp.ret = "True"
    /\ \E i \in DOMAIN facts :
          /\ facts[i].user_id = lastOp.user_id /\ ~facts[i].is_active
          /\ lastOp.pre[i].is_active
    /\ \E j \in DOMAIN facts :
          facts[j].user_id # lastOp.user_id /\ facts[j].is_active

\* C23: an upsert that the confidence guard discards reports failure, and an
\* upsert reports success only when it inserted a row or replaced the active
\* value. (upsert_fact returns True after every commit, so this fails.)
C23_DiscardedReturnsFalse ==
    (lastOp.op = "upsert" /\ lastOp.ret = "True") =>
        \/ ConflictRows(lastOp.pre, lastOp.user_id, lastOp.category, lastOp.key) = {}
        \/ \E i \in ConflictRows(lastOp.pre, lastOp.user_id, lastOp.category, lastOp.key) :
              ConfidenceGuard(lastOp.pre[i], lastOp.confidence)

\* A fact or episode line ("- key: value", "- turns a-b: summary...") occurs
\* in the text, at its start or after a line break.
HasMemoryLine(text) ==
    \E i \in 1..(Len(text) - 1) :
        /\ SubSeq(text, i, i + 1) = "- "
        /\ i = 1 \/ SubSeq(text, i - 1, i - 1) = "\n"

\* C24: format_for_injection returns "No relevant memory found." whenever no
\* fact line and no episode line made it into the output, and otherwise the
\* text holds at least one such line. (A section header is appended before
\* its first line is measured, so a header alone is returned instead.)
C24_SentinelWhenNothingQualifies ==
    fmt.pc = "done" =>
        \/ fmt.out = "No relevant memory found."
        \/ HasMemoryLine(fmt.out)

\* The store operations whose failure signal is False, and those whose
\* failure signal is the empty list.
WritingOps == {"upsert_fact", "delete_fact", "store_episode"}
ReadingOps == {"get_all_facts", "get_facts_by_keys", "retrieve_episodes",
               "get_recent_episodes"}

\* C21: store_episode returns False and leaves episodic_memory unchanged
\* whenever embed, the INSERT or the commit fails, and returns True only when
\* exactly one row of that user with the given turn_start and turn_end has
\* been added. (When the statement fails because the connection was closed,
\* the rollback in the except clause raises, so no value is returned.)
C21_StoreEpisodeFailsCleanly ==
    (so.pc = "done" /\ so.op = "store_episode") =>
        /\ (so.pool = "ready" /\ \E i \in 1..3 : so.outcomes[i] # "ok") =>
              /\ ~so.raised
              /\ so.ret = "False"
              /\ episodes = so.pre_episodes
        /\ (~so.raised /\ so.ret = "True") =>
              /\ Len(episodes) = Len(so.pre_episodes) + 1
              /\ SubSeq(episodes, 1, Len(so.pre_episodes)) = so.pre_episodes
              /\ episodes[Len(episodes)].row.user_id = so.args.user_id
              /\ episodes[Len(episodes)].row.turn_start = so.args.turn_start
              /\ episodes[Len(episodes)].row.turn_end = so.args.turn_end

\* C25: compress_session_to_episodic on fewer than 5 turns returns False
\* with no request to the generation service and no store_episode call; on
\* n >= 5 turns with offset o, an episode it stores has turn_start = o and
\* turn_end = o + n - 1, so turn_start <= turn_end.
C25_CompressBatch ==
    (so.pc = "done" /\ so.op = "compress_session_to_episodic") =>
        LET n == Len(so.args.session_history)
            o == so.args.turn_offset
        IN  /\ n < 5 => /\ so.ret = FALSE
                        /\ so.llm_calls = 0 /\ so.store_calls = 0
                        /\ episodes = so.pre_episodes
            /\ \A i \in (DOMAIN episodes) \ (DOMAIN so.pre_episodes) :
                  /\ n >= 5
                  /\ episodes[i].row.turn_start = o
                  /\ episodes[i].row.turn_end = o + n - 1
                  /\ episodes[i].row.turn_start <= episodes[i].row.turn_end
            /\ \A i \in DOMAIN so.pre_episodes : episodes[i] = so.pre_episodes[i]

\* A batch of 10 turns at offset 11 was stored as turns 11-20.
C25_Witness ==
    /\ so.pc = "done" /\ so.op = "compress_session_to_episodic"
    /\ Len(so.args.session_history) = 10 /\ so.args.turn_offset = 11
    /\ so.ret = TRUE
    /\ Len(episodes) = Len(so.pre_episodes) + 1
    /\ episodes[Len(episodes)].row.turn_end - episodes[Len(episodes)].row.turn_start = 9

\* C28: with no connection pool, every store operation returns its failure
\* signal: False for the writing operations, [] for the reading ones. (Each
\* of them calls get_conn before its try block, so RuntimeError leaves it.)
C28_UnreachableReturnsFailure ==
    (so.pc = "done" /\ so.pool = "none") =>
        /\ so.op \in WritingOps => ~so.raised /\ so.ret = "False"
        /\ so.op \in ReadingOps => ~so.raised /\ so.ret = <<>>

\* C29: compress_session_to_episodic returns True or False, and lets no
\* exception out, for every batch, every outcome of the generation request
\* and every outcome of store_episode, an unreachable store included.
C29_CompressNeverRaises ==
    (so.pc = "done" /\ so.op = "compress_session_to_episodic") =>
        ~so.raised /\ so.ret \in BOOLEAN

\* store_episode was called without a connection pool and raised inside the
\* compression, which returned False.
C29_Witness ==
    /\ so.pc = "done" /\ so.op = "compress_session_to_episodic"
    /\ so.pool = "none" /\ so.store_calls = 1
    /\ StoreOutcome(so.pool, so.outcomes[1], so.outcomes[2], so.outcomes[3]) = "raise"
    /\ so.ret = FALSE /\ ~so.raised

\* C30: when the generation request fails for a batch of at least 5 turns
\* and store_episode succeeds, the compression stores exactly one episode,
\* whose summary is the fallback text of at least 10 characters, and returns
\* True, whatever the contents of the turns.
C30_FallbackSummaryStored ==
    ( /\ so.pc = "done" /\ so.op = "compress_session_to_episodic"
      /\ Len(so.args.session_history) >= 5
      /\ so.llm.kind = "error"
      /\ so.pool = "ready" /\ \A i \in 1..3 : so.outcomes[i] = "ok" ) =>
        /\ so.ret = TRUE
        /\ Len(episodes) = Len(so.pre_episodes) + 1
        /\ SubSeq(episodes, 1, Len(so.pre_episodes)) = so.pre_episodes
        /\ Len(episodes[Len(episodes)].row.summary) >= 10
        /\ episodes[Len(episodes)].row.user_id = so.args.user_id

\* Five turns with empty contents: the fallback summary is the four
\* separators, 12 characters, and it is stored.
C30_Witness ==
    /\ so.pc = "done" /\ so.op = "compress_session_to_episodic"
    /\ so.llm.kind = "error" /\ so.ret = TRUE
    /\ Len(so.args.session_history) = 5
    /\ \A i \in 1..5 : so.args.session_history[i].content = ""
    /\ Len(episodes) = Len(so.pre_episodes) + 1
    /\ episodes[Len(episodes)].row.summary = " |  |  |  | "

\* C26: when extract_and_store is over, every valid candidate of the batch
\* that is the first with its (category, key, value) has been passed to
\* upsert_fact exactly once, in batch order, whatever happened to the other
\* candidates (rejected by validation, or upsert_fact returning False or
\* raising). (A candidate on which _validate_and_normalize raises ends the
\* loop, so the candidates after it are never passed on.)
C26_BatchSurvivesFailures ==
    ex.pc = "done" =>
        LET norms == BatchNorms
            valid == {p \in DOMAIN norms : norms[p].kind = "ok"}
            first == {p \in valid :
                        \A q \in valid : q < p => DedupeKey(norms[q]) # DedupeKey(norms[p])}
        IN  /\ Len(ex.calls) = Cardinality(first)
            /\ \A i \in DOMAIN ex.calls : ex.calls[i].pos \in first
            /\ \A i, j \in DOMAIN ex.calls : i < j => ex.calls[i].pos < ex.calls[j].pos

\* The turn a window ends with.
LastTurn(window) == window[Len(window)]

\* C27: in every chat request the user turn is in the window when
\* decide_mode, retrieve_all and call_llm are called, and the assistant turn
\* is not; the assistant turn is in the window when extract_and_store is
\* submitted, and no task of the request is submitted before; and once the
\* task is submitted the return is possible whatever the workers have done.
C27_StepOrder ==
    rq.pc # "idle" =>
        LET user == [role |-> "user", content |-> rq.message]
            assistant == [role |-> "assistant", content |-> rq.response]
        IN  /\ rq.pc # "accepted" => rq.window_at_decide # <<>>
            /\ rq.window_at_decide # <<>> => LastTurn(rq.window_at_decide) = user
            /\ rq.window_at_retrieve # <<>> => LastTurn(rq.window_at_retrieve) = user
            /\ rq.pc \in {"generated", "appended", "submitted", "returned"} =>
                  LastTurn(rq.window_at_generate) = user
            /\ rq.pc \in {"submitted", "returned"} =>
                  /\ LastTurn(rq.window_at_submit) = assistant
                  /\ rq.window_at_submit = Window
            /\ rq.window_at_submit = <<>> => Len(executor) <= Requests - 1
            /\ rq.pc = "submitted" => ENABLED ReqReturn
            /\ rq.pc = "returned" => rq.returned = rq.response

\* The second request of a user has returned in "active" mode while its own
\* extract_and_store task and the one of the first request are still queued.
C27_Witness ==
    /\ rq.pc = "returned" /\ rq.mode = "active"
    /\ Requests = 2
    /\ Len(executor) = 2
    /\ executor[2] = [fn |-> "extract_and_store", user_id |-> rq.user_id,
                      message |-> rq.message]
    /\ rq.window_at_retrieve # <<>>
    /\ LastTurn(Window) = [role |-> "assistant", content |-> rq.returned]

\* The entries of the mapping whose alias list holds the key.
AliasHits(raw_key_lower) ==
    {i \in DOMAIN CANONICAL_KEY_MAPPING : raw_key_lower \in AliasesLower[i]}

\* C31: in CANONICAL_KEY_MAPPING the alias lists of distinct canonical keys
\* are pairwise disjoint and no alias of one canonical key is another
\* canonical key, so the entry _normalize_key finds does not depend on the
\* order of the scan: every entry that lists the key has the canonical key
\* that was returned; and a canonical key is returned as itself.
C31_MappingUnambiguous ==
    /\ \A i, j \in DOMAIN CANONICAL_KEY_MAPPING :
          i # j => /\ AliasesLower[i] \cap AliasesLower[j] = {}
                   /\ CANONICAL_KEY_MAPPING[j][1] \notin AliasesLower[i]
    /\ nk.pc \in {"once", "twice"} =>
          /\ \A i \in AliasHits(PyLower(PyStrip(nk.raw))) :
                nk.out = CANONICAL_KEY_MAPPING[i][1]
          /\ nk.base \in CanonicalKeys => nk.out_base = nk.base

\* The alias "role", written " role  ", resolved to "job", the one entry
\* that lists it.
C31_Witness ==
    /\ nk.pc = "once" /\ nk.base = "role" /\ nk.raw = " role  "
    /\ nk.out = "job"
    /\ Cardinality(AliasHits("role")) = 1

\* C32: a SessionMemory of capacity 0 keeps the window bound: after every
\* add, get() is empty. (history[-0:] is the whole list, so nothing is ever
\* evicted.)
C32_ZeroCapacityBound ==
    sm.max_history = 0 => Len(SessionGet(sm)) = 0

\* C33: every fact extract_and_store persisted is eligible for stage 1 of
\* retrieve_all: whenever the fetch of a retrieve_all call for the user
\* succeeds, each active fact of the user is among the fetched facts. (The
\* extraction filter accepts importance >= 0.2, the fetch asks for
\* importance >= 0.3.)
C33_StoredFactsEligible ==
    (rt.pc = "done" /\ rt.out = "returned") =>
        \A i \in DOMAIN facts :
            (facts[i].user_id = rt.user_id /\ facts[i].is_active) =>
                \E j \in DOMAIN rt.all_facts :
                    /\ rt.all_facts[j].category = facts[i].category
                    /\ rt.all_facts[j].key = facts[i].key

\* C34: over any sequence of upsert_fact and delete_fact calls the confidence
\* of the active value of a triple never decreases, also across a delete: the
\* row that is active after an upsert has a confidence no lower than that of
\* any row the triple had before the call, soft-deleted rows included.
C34_ConfidenceNeverDecreases ==
    (lastOp.op = "upsert" /\ lastOp.ret = "True") =>
        \A i \in ActiveRows(facts, lastOp.user_id, lastOp.category, lastOp.key) :
            \A j \in TripleRows(lastOp.pre, lastOp.user_id, lastOp.category, lastOp.key) :
                facts[i].confidence >= lastOp.pre[j].confidence

\* C34 (as the code has it): the confidence of the active value of a triple
\* never decreases while the triple keeps its active row; a committed
\* delete_fact leaves the triple without an active row, and the next successful
\* upsert_fact then inserts a new active row that carries the call's value and
\* confidence, whatever the confidence of the soft-deleted rows.
C34_MonotonicWhileActive ==
    /\ (lastOp.op = "upsert" /\ lastOp.ret = "True") =>
          LET was == ActiveRows(lastOp.pre, lastOp.user_id, lastOp.category, lastOp.key)
              is  == ActiveRows(facts, lastOp.user_id, lastOp.category, lastOp.key)
          IN  /\ \A j \in was :
                    j \in is /\ facts[j].confidence >= lastOp.pre[j].confidence
              /\ was = {} =>
                    /\ is = {Len(lastOp.pre) + 1}
                    /\ \A i \in is : /\ facts[i].value = lastOp.value
                                      /\ facts[i].confidence = lastOp.confidence
    /\ (lastOp.op = "delete" /\ lastOp.committed) =>
          ActiveRows(facts, lastOp.user_id, lastOp.category, lastOp.key) = {}

C34_Witness ==
    /\ lastOp.op = "upsert" /\ lastOp.ret = "True"
    /\ ActiveRows(lastOp.pre, lastOp.user_id, lastOp.category, lastOp.key) = {}
    /\ \E i \in ActiveRows(facts, lastOp.user_id, lastOp.category, lastOp.key) :
          \E j \in TripleRows(lastOp.pre, lastOp.user_id, lastOp.category, lastOp.key) :
              /\ ~facts[j].is_active
              /\ facts[j].confidence > facts[i].confidence

\* The window after the turns of `order` were added one after the other.
RECURSIVE SerialAdds(_, _)
SerialAdds(s, order) ==
    IF order = <<>> THEN s
    ELSE SerialAdds(SessionAdd(s, order[1].role, order[1].content),
                    SubSeq(order, 2, Len(order)))

\* C36: two concurrent SessionMemory.add calls never lose a turn: once both
\* have completed, the window holds both added turns (capacity >= 2) and is
\* what the two adds leave when run one after the other in some order.
C36_ConcurrentAddsKeepTurns ==
    (th.pc = <<"done", "done">>) =>
        LET start == [history |-> Earlier(th.turn[1].content - 1),
                      max_history |-> sm.max_history]
        IN  /\ sm.max_history >= 2 =>
                  \A t \in Threads : \E i \in DOMAIN sm.history : sm.history[i] = th.turn[t]
            /\ \/ sm = SerialAdds(start, <<th.turn[1], th.turn[2]>>)
               \/ sm = SerialAdds(start, <<th.turn[2], th.turn[1]>>)

\* The requests of SpecHandlers that have completed.
Completed == {t \in Threads : th.pc[t] = "done"}

\* C35: after n requests of one user have completed, in any interleaving,
\* turn_counters[user] is n and one SessionMemory holds the turns of all n
\* requests.
C35_NoLostRequestState ==
    (\A t \in Threads : th.pc[t] \in {"done", "raised"}) =>
        /\ Completed # {} =>
              /\ turn_counters[HandlerUser] = th.prior + Cardinality(Completed)
              /\ \A t \in Completed :
                    /\ th.session[t] = th.bind
                    /\ \E i \in DOMAIN sessions[HandlerUser].history :
                          sessions[HandlerUser].history[i] =
                              [role |-> "user", content |-> HandlerMsg(t)]

\* C37: at equal confidence the fact of the later message wins: once the
\* extractions of m1 and m2 have both finished and committed their upsert,
\* the active value is the one extracted from m2, in every scheduling.
C37_LaterMessageWins ==
    (/\ Lookup(turn_counters, OrderUser, 0) = 2
     /\ executor = <<>>
     /\ \A w \in Workers : wpc[w] = "idle"
     /\ wcommits[<<OrderUser, "identity", "name">>] = 2) =>
        \A i \in ActiveRows(facts, OrderUser, "identity", "name") :
            facts[i].value = OrderValue(OrderMsgs[2])

\* C38: with a window capacity at or above the threshold, the range recorded
\* for each episode is the range of conversation positions of the turns it
\* compressed (counted from 0 or from 1): turn_start is non-negative, and the
\* episodes of one user, in the order stored, have non-decreasing turn_start
\* and ranges that do not overlap.
C38_EpisodeRangesAreGlobal ==
    capacity >= SUMMARIZE_EVERY =>
        /\ \A i \in DOMAIN episodes :
              /\ episodes[i].row.turn_start >= 0
              /\ \E base \in {0, 1} :
                    episodes[i].positions =
                        {p + base : p \in episodes[i].row.turn_start..episodes[i].row.turn_end}
        /\ \A i, j \in DOMAIN episodes :
              (i < j /\ episodes[i].row.user_id = episodes[j].row.user_id) =>
                  /\ episodes[i].row.turn_start <= episodes[j].row.turn_start
                  /\ episodes[i].row.turn_end < episodes[j].row.turn_start

\* The characters of the first n lines.
RECURSIVE CharsOf(_, _)
CharsOf(lines, n) == IF n = 0 THEN 0 ELSE CharsOf(lines, n - 1) + Len(lines[n])

\* The longest prefix of `lines` that fits: the number of lines emitted from
\* a running count of `used` when the first line over the budget ends the section.
Fitting(lines, used, char_budget) ==
    CHOOSE n \in 0..Len(lines) :
        /\ used + CharsOf(lines, n) <= char_budget
        /\ n < Len(lines) => used + CharsOf(lines, n + 1) > char_budget

C39_FactLines == [i \in DOMAIN fmt.results.structured_facts |->
                     FactLine(fmt.results.structured_facts[i])]
C39_EpisodeLines == [i \in DOMAIN fmt.results.episodic_context |->
                        EpisodeLine(fmt.results.episodic_context[i])]
C39_FactsEmitted == Fitting(C39_FactLines, 0, fmt.max_tokens * 4)
C39_EpisodesAttempted ==
    /\ C39_EpisodeLines # <<>>
    /\ CharsOf(C39_FactLines, C39_FactsEmitted) < fmt.max_tokens * 4
C39_EpisodesEmitted ==
    Fitting(C39_EpisodeLines, CharsOf(C39_FactLines, C39_FactsEmitted), fmt.max_tokens * 4)

\* C39: format_for_injection emits a prefix of the fact lines and a prefix of
\* the episode lines, each line whole: a line is emitted only while the
\* running character count plus its length stays within max_tokens * 4, the
\* first line over the budget ends its section, and the episode section is
\* attempted only while the running count is below the budget.
C39_PrefixWithinBudget ==
    fmt.pc = "done" =>
        LET profile == IF C39_FactLines # <<>>
                       THEN <<"## User Profile">> \o SubSeq(C39_FactLines, 1, C39_FactsEmitted)
                       ELSE <<>>
            context == IF C39_EpisodesAttempted
                       THEN <<"\n## Recent Context">>
                            \o SubSeq(C39_EpisodeLines, 1, C39_EpisodesEmitted)
                       ELSE <<>>
        IN  fmt.out = IF profile \o context = <<>>
                      THEN "No relevant memory found."
                      ELSE PyJoin("\n", profile \o context)

C39_Witness ==
    /\ fmt.pc = "done"
    /\ Len(C39_FactLines) = 2 /\ C39_FactsEmitted = 1
    /\ Len(C39_EpisodeLines) = 2 /\ C39_EpisodesAttempted /\ C39_EpisodesEmitted = 0

\* C4: history is retained: every value that was ever the active value of a
\* triple is still stored in some row of that triple, and no call destroys or
\* overwrites a stored row (a superseded row keeps its value, confidence and
\* importance; only its is_active flag and timestamp may change).
C4_HistoryRetained ==
    /\ \A av \in everActive :
          \E i \in TripleRows(facts, av[1], av[2], av[3]) : facts[i].value = av[4]
    /\ lastOp.op # "none" =>
          \A i \in DOMAIN lastOp.pre :
              /\ i \in DOMAIN facts
              /\ facts[i].value = lastOp.pre[i].value
              /\ facts[i].confidence = lastOp.pre[i].confidence
              /\ facts[i].importance = lastOp.pre[i].importance

====
